---- MODULE Spec2Model ----
\* Model of the client-loyalty extraction pipeline of Docx_to_struct:
\* src/main.py (command-line variant) and src/radiance_crm_app.py (GUI variant).
\*
\* Texts are sequences of characters; a character is a one-character string.
\* A calendar date in its DD/MM/YYYY textual form is the triple <<DD, MM, YYYY>>:
\* the three fields have fixed widths, so equality and lexicographic order of the
\* triples are equality and lexicographic order of the formatted strings.
EXTENDS Integers, Sequences, FiniteSets, TLC

VARIABLES
    variant,        \* "main" (src/main.py) or "app" (src/radiance_crm_app.py)
    threshold,      \* fuzzy threshold handed to merge_duplicate_clients
    min_sessions,   \* loyalty threshold handed to filter_loyal_clients
    pc,             \* position of the pipeline
    all_clients,    \* raw records, in extraction order
    i,              \* merge_duplicate_clients: index of the outer loop (1-based)
    j,              \* merge_duplicate_clients: index of the inner loop (1-based)
    processed,      \* merge_duplicate_clients: set of consumed indices
    merged_client,  \* merge_duplicate_clients: the cluster being built
    merged,         \* merge_duplicate_clients: list of finished clusters
    cur_members,    \* history: input indices folded into merged_client
    members,        \* history: members[k] = input indices folded into merged[k]
    loyal,          \* result of filter_loyal_clients
    outcome,        \* how the run ended
    docs,           \* the batch of documents, in processing order
    doc_idx,        \* process_all_docx_files: index of the current document
    table_idx,      \* extract_clients_from_docx: index of the current table
    row_idx,        \* extract_clients_from_docx: index of the current row
    clients,        \* extract_clients_from_docx: records of the current document
    name_col,       \* header mode: column of the names, 0 for None
    date_col,       \* header mode: column of the dates, 0 for None
    phone_col,      \* header mode: column of the telephones, 0 for None
    extracted,      \* history: extracted[k] = what extract_clients_from_docx returned for docs[k]
    stages,         \* history: the stages of the pipeline that were run, in order
    written,        \* the rows the export functions wrote
    is_running,     \* GUI: self.is_running
    input_dir,      \* GUI: whether the source folder is selected
    missing_deps,   \* GUI: whether MISSING_DEPS is non-empty
    threads,        \* GUI: position of each worker thread started, in start order
    after_queue,    \* GUI: callbacks scheduled with self.after, not yet run
    run_btn,        \* GUI: state of the run button
    status,         \* GUI: the status line
    fn_in,          \* a text handed to one of the text functions
    fn_name,        \* the text function applied to fn_in, "none" before
    fn_out          \* what the function returned

\* The variables of the table walker.
walk_vars == <<docs, doc_idx, table_idx, row_idx, clients, name_col, date_col, phone_col,
               extracted>>

\* The variables of the export stage and the record of the stages run.
out_vars == <<stages, written>>

\* The variables of the graphical interface.
gui_vars == <<is_running, input_dir, missing_deps, threads, after_queue, run_btn, status>>

\* The variables of a single application of a text function.
fn_vars == <<fn_in, fn_name, fn_out>>

vars == <<variant, threshold, min_sessions, pc, all_clients, i, j, processed,
          merged_client, merged, cur_members, members, loyal, outcome, walk_vars,
          out_vars, gui_vars, fn_vars>>

\* ---------------------------------------------------------------- bounds

\* Largest number of raw records handed to the deduplicator.
MaxClients == 3

\* The largest number of documents in a batch.
MaxDocs == 2

\* ---------------------------------------------------------------- characters

LowerLetters ==
    <<"a","b","c","d","e","f","g","h","i","j","k","l","m",
      "n","o","p","q","r","s","t","u","v","w","x","y","z","é">>

UpperLetters ==
    <<"A","B","C","D","E","F","G","H","I","J","K","L","M",
      "N","O","P","Q","R","S","T","U","V","W","X","Y","Z","É">>

Range(s) == {s[k] : k \in 1..Len(s)}

\* Cased letters: a-z and A-Z, and of the accented letters é and É.
IsLower(c) == c \in Range(LowerLetters)

IsUpper(c) == c \in Range(UpperLetters)

IndexIn(s, c) == CHOOSE k \in 1..Len(s) : s[k] = c

\* str.lower() on one character.
LowerChar(c) == IF IsUpper(c) THEN LowerLetters[IndexIn(UpperLetters, c)] ELSE c

\* str.upper() on one character.
UpperChar(c) == IF IsLower(c) THEN UpperLetters[IndexIn(LowerLetters, c)] ELSE c

\* str.lower()
Lower(s) == [k \in 1..Len(s) |-> LowerChar(s[k])]

\* Python's whitespace characters (str.strip, str.split, regex \s).
IsSpace(c) == c \in {" ", "\n", "\r", "\t"}

RECURSIVE LStrip(_)
LStrip(s) ==
    IF s # <<>> /\ IsSpace(Head(s)) THEN LStrip(Tail(s)) ELSE s

RECURSIVE RStrip(_)
RStrip(s) ==
    IF s # <<>> /\ IsSpace(s[Len(s)]) THEN RStrip(SubSeq(s, 1, Len(s) - 1)) ELSE s

\* str.strip()
Strip(s) == RStrip(LStrip(s))

Max(a, b) == IF a >= b THEN a ELSE b

\* ---------------------------------------------------------------- regular expressions

Digits == {"0","1","2","3","4","5","6","7","8","9"}

IsDigit(c) == c \in Digits

\* The characters of À-ÿ that are no letters: the signs × and ÷.
Latin1Signs == {"×", "÷"}

\* The character classes of the program's regular expressions.
InClass(c, cls) ==
    CASE cls = "0"      -> c = "0"
      [] cls = "+"      -> c = "+"
      [] cls = "\\d"    -> IsDigit(c)
      [] cls = "[\\s\\.-]" -> IsSpace(c) \/ c \in {".", "-"}
      [] cls = "[/\\-\\.]" -> c \in {"/", "-", "."}
      [] cls = "[\\d\\s/\\-\\.]" -> IsDigit(c) \/ IsSpace(c) \/ c \in {"/", "-", "."}
      [] cls = "[a-zA-ZÀ-ÿ]" -> IsLower(c) \/ IsUpper(c) \/ c \in Latin1Signs
      [] cls = "\\w"    -> IsLower(c) \/ IsUpper(c) \/ IsDigit(c) \/ c = "_"
      [] cls = "[\\n\\r;]" -> c \in {"\n", "\r", ";"}
      [] cls = "[,;\\n\\r|]" -> c \in {",", ";", "\n", "\r", "|"}

\* One item of a pattern: a character class repeated min to max times, greedily;
\* max = -1 is no upper limit.
Item(cls, min, max) == [cls |-> cls, min |-> min, max |-> max]

\* How many characters of text from position pos on are in class cls, up to cap.
RECURSIVE RunLen(_, _, _, _)
RunLen(text, pos, cls, cap) ==
    IF cap = 0 \/ pos > Len(text) \/ ~InClass(text[pos], cls) THEN 0
    ELSE 1 + RunLen(text, pos + 1, cls, IF cap = -1 THEN -1 ELSE cap - 1)

NoMatch == <<-1>>

\* The match of the items k.. of pat at position pos, as the backtracking
\* matcher finds it (longest repetition first): the position after each item, or
\* NoMatch.
RECURSIVE MatchFrom(_, _, _, _)
RECURSIVE TryCount(_, _, _, _, _)
TryCount(pat, k, text, pos, n) ==
    IF n < pat[k].min THEN NoMatch
    ELSE LET rest == MatchFrom(pat, k + 1, text, pos + n)
         IN  IF rest # NoMatch THEN <<pos + n>> \o rest
             ELSE TryCount(pat, k, text, pos, n - 1)

MatchFrom(pat, k, text, pos) ==
    IF k > Len(pat) THEN <<>>
    ELSE TryCount(pat, k, text, pos, RunLen(text, pos, pat[k].cls, pat[k].max))

\* re.match(pat, text): the position after the match at the start, or 0.
MatchEnd(pat, text, pos) ==
    LET m == MatchFrom(pat, 1, text, pos)
    IN  IF m = NoMatch THEN 0 ELSE m[Len(m)]

\* re.search(pat, text): the leftmost position where pat matches, or 0.
RECURSIVE SearchFrom(_, _, _)
SearchFrom(pat, text, pos) ==
    IF pos > Len(text) THEN 0
    ELSE IF MatchEnd(pat, text, pos) # 0 THEN pos
    ELSE SearchFrom(pat, text, pos + 1)

\* re.sub(pat, '', text): every match removed, left to right.
RECURSIVE SubRemove(_, _, _)
SubRemove(pat, text, pos) ==
    IF pos > Len(text) THEN <<>>
    ELSE IF MatchEnd(pat, text, pos) # 0
         THEN SubRemove(pat, text, MatchEnd(pat, text, pos))
         ELSE <<text[pos]>> \o SubRemove(pat, text, pos + 1)

\* ---------------------------------------------------------------- telephone

\* normalize_phone: the digits, when there are at least 9.
MinPhoneDigits == 9

normalize_phone(phone_str) ==
    LET digits == SelectSeq(phone_str, IsDigit)
    IN  IF Len(digits) >= MinPhoneDigits THEN digits ELSE <<>>

\* phone_patterns, in the order they are tried.
phone_patterns ==
    << <<Item("0", 1, 1), Item("\\d", 9, 9)>>,
       <<Item("0", 1, 1), Item("\\d", 2, 2),
         Item("[\\s\\.-]", 0, 1), Item("\\d", 2, 2),
         Item("[\\s\\.-]", 0, 1), Item("\\d", 2, 2),
         Item("[\\s\\.-]", 0, 1), Item("\\d", 2, 2),
         Item("[\\s\\.-]", 0, 1), Item("\\d", 2, 2)>>,
       <<Item("+", 0, 1), Item("\\d", 2, 4),
         Item("[\\s\\.-]", 0, 1), Item("\\d", 2, 4),
         Item("[\\s\\.-]", 0, 1), Item("\\d", 2, 4),
         Item("[\\s\\.-]", 0, 1), Item("\\d", 2, 4)>>,
       <<Item("\\d", 9, -1)>> >>

\* match.group(0) of re.search(pattern, text), start being where it matched;
\* <<>> without a match.
MatchedText(pattern, text, start) ==
    IF start = 0 THEN <<>>
    ELSE SubSeq(text, start, MatchEnd(pattern, text, start) - 1)

\* The loop of extract_phone_from_text over the patterns left: <<clean_text, phone>>.
RECURSIVE ExtractPhoneFrom(_, _)
PhoneOrNext_FirstSpan(text, patterns, phone) ==
    IF phone # <<>>
    THEN <<Strip(SubSeq(text, 1, SearchFrom(Head(patterns), text, 1) - 1)
                 \o SubSeq(text, MatchEnd(Head(patterns), text,
                                          SearchFrom(Head(patterns), text, 1)), Len(text))),
           phone>>
    ELSE ExtractPhoneFrom(text, Tail(patterns))

\* phone is the normalised match of the first pattern left: returned when it is
\* a telephone number, with the text cleared of the pattern's matches.
PhoneOrNext(text, patterns, phone) ==
    IF phone # <<>>
    THEN <<Strip(SubRemove(Head(patterns), text, 1)), phone>>
    ELSE ExtractPhoneFrom(text, Tail(patterns))

ExtractPhoneFrom(text, patterns) ==
    IF patterns = <<>> THEN <<text, <<>>>>
    ELSE PhoneOrNext(text, patterns,
             normalize_phone(MatchedText(Head(patterns), text,
                                         SearchFrom(Head(patterns), text, 1))))

\* extract_phone_from_text: <<clean_text, phone>>.
extract_phone_from_text(text) == ExtractPhoneFrom(text, phone_patterns)

\* ---------------------------------------------------------------- names

is_valid_name_AnyLetter(text0) ==
    \E k \in 1..Len(text0) : InClass(text0[k], "[a-zA-ZÀ-ÿ]")

\* is_valid_name
is_valid_name(text0) ==
    LET text == Strip(text0)
    IN  IF text = <<>> THEN FALSE
        ELSE IF MatchEnd(<<Item("[\\d\\s/\\-\\.]", 1, -1)>>, text, 1) = Len(text) + 1
             THEN FALSE
        ELSE IF MatchEnd(<<Item("\\d", 1, 2), Item("[/\\-\\.]", 1, 1),
                           Item("\\d", 1, 2)>>, text, 1) # 0
             THEN FALSE
        ELSE IF Len(text) < 2 THEN FALSE
        ELSE \E k \in 1..Len(text) : InClass(text[k], "[a-zA-ZÀ-ÿ]")

\* re.sub(r'[^\w\s\-]', ' ', text)
BlankPunctuation(text) ==
    [k \in 1..Len(text) |->
        IF InClass(text[k], "\\w") \/ IsSpace(text[k]) \/ text[k] = "-"
        THEN text[k] ELSE " "]

\* re.sub(r'\s+', ' ', text)
RECURSIVE CollapseSpaces(_)
CollapseSpaces(text) ==
    IF text = <<>> THEN <<>>
    ELSE IF IsSpace(Head(text))
         THEN <<" ">> \o CollapseSpaces(LStrip(text))
         ELSE <<Head(text)>> \o CollapseSpaces(Tail(text))

\* The first whitespace-free run of a text that starts with none.
RECURSIVE FirstWord(_)
FirstWord(text) ==
    IF text = <<>> \/ IsSpace(Head(text)) THEN <<>>
    ELSE <<Head(text)>> \o FirstWord(Tail(text))

\* str.split()
RECURSIVE Split(_)
Split(text) ==
    LET t == LStrip(text)
    IN  IF t = <<>> THEN <<>>
        ELSE <<FirstWord(t)>> \o Split(SubSeq(t, Len(FirstWord(t)) + 1, Len(t)))

\* str.title(): a letter is upper-cased after a character that is no letter,
\* lower-cased after a letter.
RECURSIVE TitleFrom(_, _)
TitleFrom(text, after_letter) ==
    IF text = <<>> THEN <<>>
    ELSE LET c == Head(text)
             cased == IsLower(c) \/ IsUpper(c)
         IN  <<IF ~cased THEN c
               ELSE IF after_letter THEN LowerChar(c) ELSE UpperChar(c)>>
             \o TitleFrom(Tail(text), cased)

Title(text) == TitleFrom(text, FALSE)

NameOfParts_LastWord(parts, phone) ==
    IF Len(parts) = 0 THEN <<<<>>, <<>>, phone>>
    ELSE IF Len(parts) = 1 THEN <<Title(parts[1]), <<>>, phone>>
    ELSE <<Title(parts[1]), Title(parts[Len(parts)]), phone>>

\* parse_name from the split words on.
NameOfParts(parts, phone) ==
    IF Len(parts) = 0 THEN <<<<>>, <<>>, phone>>
    ELSE IF Len(parts) = 1 THEN <<Title(parts[1]), <<>>, phone>>
    ELSE <<Title(parts[1]), Title(parts[2]), phone>>

\* parse_name from the cleaned text on.
NameOfClean(text_without_phone, phone) ==
    IF text_without_phone = <<>> THEN <<<<>>, <<>>, phone>>
    ELSE IF ~is_valid_name(text_without_phone) THEN <<<<>>, <<>>, <<>>>>
    ELSE NameOfParts(Split(text_without_phone), phone)

\* parse_name from the result ex of extract_phone_from_text on.
NameOfExtract(ex) ==
    NameOfClean(Strip(CollapseSpaces(BlankPunctuation(ex[1]))), ex[2])

\* parse_name: <<nom, prenom, telephone>>.
parse_name(text0) ==
    IF text0 = <<>> \/ ~is_valid_name(Strip(text0)) THEN <<<<>>, <<>>, <<>>>>
    ELSE NameOfExtract(extract_phone_from_text(Strip(text0)))

\* ---------------------------------------------------------------- cells

\* A cell value of the document reader: a string, a list of cell values, or any
\* other value, given by its str() form and its truth value.
StrCell(text) == [kind |-> "str", text |-> text]

ListCell(items) == [kind |-> "list", items |-> items]

OtherCell(text, truthy) == [kind |-> "other", text |-> text, truthy |-> truthy]

\* ' '.join(parts)
RECURSIVE JoinWithSpace(_)
JoinWithSpace(parts) ==
    IF parts = <<>> THEN <<>>
    ELSE IF Len(parts) = 1 THEN parts[1]
    ELSE parts[1] \o <<" ">> \o JoinWithSpace(Tail(parts))

NonEmpty(text) == text # <<>>

\* flatten_cell_content
RECURSIVE flatten_cell_content(_)
flatten_cell_content(cell_data) ==
    CASE cell_data.kind = "str" -> Strip(cell_data.text)
      [] cell_data.kind = "list" ->
            JoinWithSpace(SelectSeq(
                [k \in 1..Len(cell_data.items) |->
                    flatten_cell_content(cell_data.items[k])], NonEmpty))
      [] cell_data.kind = "other" ->
            IF cell_data.truthy THEN Strip(cell_data.text) ELSE <<>>

\* The pieces of text between the characters of class cls.
RECURSIVE SplitAt(_, _)
SplitAt(text, cls) ==
    IF \A k \in 1..Len(text) : ~InClass(text[k], cls) THEN <<text>>
    ELSE LET k == CHOOSE n \in 1..Len(text) :
                      /\ InClass(text[n], cls)
                      /\ \A m \in 1..(n - 1) : ~InClass(text[m], cls)
         IN  <<SubSeq(text, 1, k - 1)>> \o SplitAt(SubSeq(text, k + 1, Len(text)), cls)

\* [p.strip() for p in pieces if p.strip()]
StrippedNonEmpty(pieces) ==
    SelectSeq([k \in 1..Len(pieces) |-> Strip(pieces[k])], NonEmpty)

\* split_clients_in_cell
split_clients_in_cell(cell_text) ==
    IF cell_text = <<>> THEN <<>>
    ELSE StrippedNonEmpty(SplitAt(cell_text, "[\\n\\r;]"))

\* ---------------------------------------------------------------- date parsing

\* The first and the last year parse_dates accepts.
MinYear == 2000

MaxYear == 2030

\* datetime.now().year
CurrentYear == 2026

DigitValue(c) == CHOOSE n \in 0..9 : <<"0","1","2","3","4","5","6","7","8","9">>[n + 1] = c

\* int(s) for a string of digits.
RECURSIVE ToInt(_)
ToInt(s) ==
    IF s = <<>> THEN 0
    ELSE 10 * ToInt(SubSeq(s, 1, Len(s) - 1)) + DigitValue(s[Len(s)])

DaysInMonth(m, y) ==
    IF m \in {4, 6, 9, 11} THEN 30
    ELSE IF m # 2 THEN 31
    ELSE IF (y % 4 = 0 /\ y % 100 # 0) \/ y % 400 = 0 THEN 29
    ELSE 28

\* (\d{1,2})[/\.-](\d{1,2})
day_month_pattern ==
    <<Item("\\d", 1, 2), Item("[/\\-\\.]", 1, 1), Item("\\d", 1, 2)>>

\* [/\.-](\d{2,4})
year_pattern == <<Item("[/\\-\\.]", 1, 1), Item("\\d", 2, 4)>>

\* The match of the year pattern after the day and month matched at dm.
YearMatch(text, dm) ==
    IF dm = NoMatch THEN NoMatch ELSE MatchFrom(year_pattern, 1, text, dm[3])

\* match.groups(): the strings of day, month and year of a match at position
\* pos of text, dm and yr being the positions after the items of the two
\* patterns; the year is <<>> when the match has none.
GroupsOf(text, pos, dm, yr) ==
    <<SubSeq(text, pos, dm[1] - 1),
      SubSeq(text, dm[2], dm[3] - 1),
      IF yr = NoMatch THEN <<>> ELSE SubSeq(text, yr[1], yr[2] - 1)>>

NoDate == <<0, 0, 0>>

\* The day d/m/y when the calendar has it.
CalendarDate(d, m, y) ==
    IF y >= 1 /\ m \in 1..12 /\ d \in 1..DaysInMonth(m, y) THEN <<d, m, y>> ELSE NoDate

\* The year the library reads from the digits ys, of value n.
LibraryYear(ys, n) ==
    IF ys = <<>> THEN CurrentYear
    ELSE IF Len(ys) = 4 THEN n
    ELSE IF n < 69 THEN 2000 + n
    ELSE 1900 + n

LibraryDate(g) ==
    CalendarDate(ToInt(g[1]), ToInt(g[2]), LibraryYear(g[3], ToInt(g[3])))

\* Whether the token is, as a whole, D[D]/M[M], D[D]/M[M]/YY or D[D]/M[M]/YYYY.
IsWholeToken(date_str, dm, yr) ==
    /\ dm # NoMatch
    /\ \/ dm[3] = Len(date_str) + 1
       \/ /\ yr # NoMatch
          /\ yr[2] = Len(date_str) + 1
          /\ yr[2] - yr[1] \in {2, 4}

LibraryParse(date_str, dm, yr) ==
    IF IsWholeToken(date_str, dm, yr)
    THEN LibraryDate(GroupsOf(date_str, 1, dm, yr))
    ELSE NoDate

LibraryParseFrom(date_str, dm) == LibraryParse(date_str, dm, YearMatch(date_str, dm))

\* dateparser.parse(date_str, DATE_ORDER 'DMY') of the date parsing library, on
\* the tokens the model feeds it: a token that is as a whole D[D]/M[M]/YYYY,
\* D[D]/M[M]/YY or D[D]/M[M] and names a day of the calendar is that day (a
\* two-digit year below 69 in the 2000s, else in the 1900s; no year, the current
\* year); for any other token the library finds no date.
dateparser_parse(date_str) ==
    LibraryParseFrom(date_str, MatchFrom(day_month_pattern, 1, date_str, 1))

InWindow_Any(year) == TRUE

\* 2000 <= year <= 2030
InWindow(year) == MinYear <= year /\ year <= MaxYear

\* `if 2000 <= year <= 2030: dates.append(...)`
AppendInWindow(d, m, year) ==
    IF InWindow(year) THEN <<<<d, m, year>>>> ELSE <<>>

FallbackYear_main_Pivot20(ys, n) ==
    IF Len(ys) = 2 THEN (IF n < 20 THEN 2000 ELSE 1900) + n ELSE n

\* src/main.py: the year of the simple pattern, the century added to two digits.
FallbackYear_main(ys, n) ==
    IF Len(ys) = 2 THEN (IF n < 50 THEN 2000 ELSE 1900) + n ELSE n

FallbackGroups_main(g) ==
    AppendInWindow(ToInt(g[1]), ToInt(g[2]), FallbackYear_main(g[3], ToInt(g[3])))

FallbackAt_main(date_str, start, dm) ==
    FallbackGroups_main(GroupsOf(date_str, start, dm, YearMatch(date_str, dm)))

\* src/main.py: re.search of the simple pattern DD/MM/YYYY in the token.
Fallback_main(date_str, start) ==
    IF start = 0 THEN <<>>
    ELSE FallbackAt_main(date_str, start, MatchFrom(day_month_pattern, 1, date_str, start))

TokenDates_main(date_str, parsed_date) ==
    IF parsed_date # NoDate
    THEN AppendInWindow(parsed_date[1], parsed_date[2], parsed_date[3])
    ELSE Fallback_main(date_str, SearchFrom(day_month_pattern \o year_pattern, date_str, 1))

\* src/main.py parse_dates, one token: the dates it appends.
ParseDateToken_main(date_str) == TokenDates_main(date_str, dateparser_parse(date_str))

\* src/radiance_crm_app.py: `if year < 100: year += 2000`
FallbackYear_app(year) == IF year < 100 THEN year + 2000 ELSE year

\* src/radiance_crm_app.py: the range check of day, month and year.
AppendInRange(day, month, year) ==
    IF 1 <= day /\ day <= 31 /\ 1 <= month /\ month <= 12 /\ InWindow(year)
    THEN <<<<day, month, year>>>> ELSE <<>>

FallbackGroups_app(g) ==
    AppendInRange(ToInt(g[1]), ToInt(g[2]),
                  FallbackYear_app(IF g[3] = <<>> THEN CurrentYear ELSE ToInt(g[3])))

FallbackAt_app(date_str, start, dm) ==
    FallbackGroups_app(GroupsOf(date_str, start, dm, YearMatch(date_str, dm)))

\* src/radiance_crm_app.py: re.search of day, month and optional year.
Fallback_app(date_str, start) ==
    IF start = 0 THEN <<>>
    ELSE FallbackAt_app(date_str, start, MatchFrom(day_month_pattern, 1, date_str, start))

TokenDates_app(date_str, parsed_date) ==
    IF parsed_date # NoDate
    THEN AppendInWindow(parsed_date[1], parsed_date[2], parsed_date[3])
    ELSE Fallback_app(date_str, SearchFrom(day_month_pattern, date_str, 1))

\* src/radiance_crm_app.py parse_dates, one token: the dates it appends.
ParseDateToken_app(date_str) == TokenDates_app(date_str, dateparser_parse(date_str))

\* The tokens of a date cell: split on , ; \n \r (and |), stripped, non-empty.
DateTokens(date_text) == StrippedNonEmpty(SplitAt(date_text, "[,;\\n\\r|]"))

RECURSIVE ConcatAll(_)
ConcatAll(lists) ==
    IF lists = <<>> THEN <<>> ELSE Head(lists) \o ConcatAll(Tail(lists))

\* src/main.py parse_dates: the list of dates, in the order of the tokens.
parse_dates_main(date_text) ==
    LET date_parts == DateTokens(date_text)
    IN  ConcatAll([k \in 1..Len(date_parts) |-> ParseDateToken_main(date_parts[k])])

\* src/radiance_crm_app.py parse_dates before the final list(set(dates)): the
\* set of dates.
parse_dates_app(date_text) ==
    LET date_parts == DateTokens(date_text)
    IN  Range(ConcatAll([k \in 1..Len(date_parts) |-> ParseDateToken_app(date_parts[k])]))

\* The lists that hold each element of the set S once: list(S) in some order.
ListsOf(S) ==
    {l \in [1..Cardinality(S) -> S] : Range(l) = S}

\* ---------------------------------------------------------------- similarity

\* One row of the longest-common-subsequence table: acc[k] is the entry of
\* column k-1 of the row of character ch, prev the row above.
RECURSIVE LcsFillRow(_, _, _, _, _)
LcsFillRow(prev, ch, b, col, acc) ==
    IF col > Len(b) THEN acc
    ELSE LcsFillRow(prev, ch, b, col + 1,
            Append(acc, IF ch = b[col] THEN prev[col] + 1
                        ELSE Max(prev[col + 1], acc[col])))

RECURSIVE LcsRows(_, _, _, _)
LcsRows(a, b, row, prev) ==
    IF row > Len(a) THEN prev[Len(b) + 1]
    ELSE LcsRows(a, b, row + 1, LcsFillRow(prev, a[row], b, 1, <<0>>))

\* Length of the longest common subsequence of a and b.
LcsLen(a, b) == LcsRows(a, b, 1, [k \in 1..(Len(b) + 1) |-> 0])

\* rapidfuzz.fuzz.ratio: 100 * (1 - indel(a, b) / (len(a) + len(b))), where
\* indel(a, b) = len(a) + len(b) - 2 * lcs(a, b); 100 for two empty strings.
\* The score is the exact fraction <<numerator, denominator>>.
fuzz_ratio(a, b) ==
    IF Len(a) + Len(b) = 0 THEN <<100, 1>>
    ELSE <<200 * LcsLen(a, b), Len(a) + Len(b)>>

\* score >= t, for a score <<numerator, denominator>>.
ScoreAtLeast(score, t) == score[1] >= t * score[2]

\* max(score, floor), for a score <<numerator, denominator>>.
ScoreMax(score, floor) == IF ScoreAtLeast(score, floor) THEN score ELSE <<floor, 1>>

\* f"{c['nom']} {c['prenom']}".strip()
FullName(c) == Strip(c.nom \o <<" ">> \o c.prenom)

\* src/main.py calculate_similarity: names only.
calculate_similarity_main(c1, c2) ==
    fuzz_ratio(Lower(FullName(c1)), Lower(FullName(c2)))

calculate_similarity_app_NoBoost(c1, c2) ==
    fuzz_ratio(Lower(FullName(c1)), Lower(FullName(c2)))

\* src/radiance_crm_app.py calculate_similarity: names, and at least 95 when
\* both telephones are non-empty and equal.
calculate_similarity_app(c1, c2) ==
    LET name_score == fuzz_ratio(Lower(FullName(c1)), Lower(FullName(c2)))
    IN  IF c1.telephone # <<>> /\ c2.telephone # <<>> /\ c1.telephone = c2.telephone
        THEN ScoreMax(name_score, 95)
        ELSE name_score

calculate_similarity(c1, c2) ==
    IF variant = "app" THEN calculate_similarity_app(c1, c2)
    ELSE calculate_similarity_main(c1, c2)

\* ---------------------------------------------------------------- dates

\* Order of two formatted dates as strings: day field first, then month, then year.
DateLess(a, b) ==
    \/ a[1] < b[1]
    \/ a[1] = b[1] /\ a[2] < b[2]
    \/ a[1] = b[1] /\ a[2] = b[2] /\ a[3] < b[3]

\* sorted(list(S)) for a set S of formatted dates.
RECURSIVE SortedDates(_)
SortedDates(S) ==
    IF S = {} THEN <<>>
    ELSE LET m == CHOOSE x \in S : \A y \in S \ {x} : DateLess(x, y)
         IN  <<m>> \o SortedDates(S \ {m})

\* ---------------------------------------------------------------- deduplicator

\* `if i in processed: continue` / `if j in processed: continue`
AlreadyProcessed_Never(k) == FALSE

AlreadyProcessed(k) == k \in processed

\* `calculate_similarity(client1, client2) >= threshold`, client1 being the seed.
IsDuplicate_OfLastMember(seed, k) ==
    LET last == CHOOSE m \in cur_members : \A n \in cur_members : n <= m
    IN  ScoreAtLeast(calculate_similarity(all_clients[last], all_clients[k]), threshold)

IsDuplicate(seed, k) ==
    ScoreAtLeast(calculate_similarity(all_clients[seed], all_clients[k]), threshold)

NewCluster_SeedDatesDropped(client1) ==
    [nom          |-> client1.nom,
     prenom       |-> client1.prenom,
     telephone    |-> client1.telephone,
     dates        |-> {},
     source_files |-> {client1.source_file}]

\* The merged client created from the seed.
NewCluster(client1) ==
    [nom          |-> client1.nom,
     prenom       |-> client1.prenom,
     telephone    |-> client1.telephone,
     dates        |-> Range(client1.dates),
     source_files |-> {client1.source_file}]

MergeInto_LongerName(mc, client2) ==
    [mc EXCEPT !.dates = @ \cup Range(client2.dates),
               !.source_files = @ \cup {client2.source_file},
               !.nom = IF Len(client2.nom) > Len(@) THEN client2.nom ELSE @,
               !.telephone = IF Len(client2.telephone) > Len(@)
                             THEN client2.telephone ELSE @]

MergeInto_LastLongest(mc, client2) ==
    [mc EXCEPT !.dates = @ \cup Range(client2.dates),
               !.source_files = @ \cup {client2.source_file},
               !.telephone = IF Len(client2.telephone) >= Len(@)
                             THEN client2.telephone ELSE @]

MergeInto_DatesKept(mc, client2) ==
    [mc EXCEPT !.source_files = @ \cup {client2.source_file},
               !.telephone = IF Len(client2.telephone) > Len(@)
                             THEN client2.telephone ELSE @]

\* Fusion of a duplicate into the merged client.
MergeInto(mc, client2) ==
    [mc EXCEPT !.dates = @ \cup Range(client2.dates),
               !.source_files = @ \cup {client2.source_file},
               !.telephone = IF Len(client2.telephone) > Len(@)
                             THEN client2.telephone ELSE @]

\* The dates as a sorted list, and their count.
FinishCluster(mc) ==
    [nom          |-> mc.nom,
     prenom       |-> mc.prenom,
     telephone    |-> mc.telephone,
     dates        |-> SortedDates(mc.dates),
     source_files |-> mc.source_files,
     nb_seances   |-> Len(SortedDates(mc.dates))]

NoCluster == [nom |-> <<>>, prenom |-> <<>>, telephone |-> <<>>, dates |-> {},
              source_files |-> {}]

\* main() / _run_pipeline: `if not all_clients: ... return` after extraction.
IsEmptyList_Never(cl) == FALSE

\* `not all_clients`, `not loyal_clients`: the list is empty.
IsEmptyList(cl) == cl = <<>>

CheckExtracted ==
    /\ pc = "extracted"
    /\ IF IsEmptyList(all_clients)
       THEN pc' = "done" /\ outcome' = "nothing_extracted"
       ELSE pc' = "merge" /\ outcome' = outcome
    /\ UNCHANGED <<variant, threshold, min_sessions, all_clients, i, j, processed,
                   merged_client, merged, cur_members, members, loyal>>
    /\ UNCHANGED <<walk_vars, out_vars, gui_vars, fn_vars>>

\* merge_duplicate_clients: entry.
MergeStart ==
    /\ pc = "merge"
    /\ IF all_clients = <<>>
       THEN pc' = "filter" /\ i' = i
       ELSE pc' = "outer" /\ i' = 1
    /\ merged' = <<>>
    /\ members' = <<>>
    /\ processed' = {}
    /\ stages' = Append(stages, "merge")
    /\ UNCHANGED <<variant, threshold, min_sessions, all_clients, j, merged_client,
                   cur_members, loyal, outcome>>
    /\ UNCHANGED <<walk_vars, written, gui_vars, fn_vars>>

\* Outer loop: record i was consumed by an earlier cluster.
OuterSkip ==
    /\ pc = "outer"
    /\ i <= Len(all_clients)
    /\ AlreadyProcessed(i)
    /\ i' = i + 1
    /\ UNCHANGED <<variant, threshold, min_sessions, pc, all_clients, j, processed,
                   merged_client, merged, cur_members, members, loyal, outcome>>
    /\ UNCHANGED <<walk_vars, out_vars, gui_vars, fn_vars>>

\* Outer loop: record i seeds a new cluster.
OuterSeed ==
    /\ pc = "outer"
    /\ i <= Len(all_clients)
    /\ ~AlreadyProcessed(i)
    /\ merged_client' = NewCluster(all_clients[i])
    /\ cur_members' = {i}
    /\ j' = i + 1
    /\ pc' = "inner"
    /\ UNCHANGED <<variant, threshold, min_sessions, all_clients, i, processed,
                   merged, members, loyal, outcome>>
    /\ UNCHANGED <<walk_vars, out_vars, gui_vars, fn_vars>>

\* Inner loop: record j was consumed by an earlier cluster.
InnerSkip ==
    /\ pc = "inner"
    /\ j <= Len(all_clients)
    /\ AlreadyProcessed(j)
    /\ j' = j + 1
    /\ UNCHANGED <<variant, threshold, min_sessions, pc, all_clients, i, processed,
                   merged_client, merged, cur_members, members, loyal, outcome>>
    /\ UNCHANGED <<walk_vars, out_vars, gui_vars, fn_vars>>

\* Inner loop: record j is scored against the seed and merged when similar.
InnerCompare ==
    /\ pc = "inner"
    /\ j <= Len(all_clients)
    /\ ~AlreadyProcessed(j)
    /\ IF IsDuplicate(i, j)
       THEN /\ merged_client' = MergeInto(merged_client, all_clients[j])
            /\ processed' = processed \cup {j}
            /\ cur_members' = cur_members \cup {j}
       ELSE UNCHANGED <<merged_client, processed, cur_members>>
    /\ j' = j + 1
    /\ UNCHANGED <<variant, threshold, min_sessions, pc, all_clients, i, merged,
                   members, loyal, outcome>>
    /\ UNCHANGED <<walk_vars, out_vars, gui_vars, fn_vars>>

\* Inner loop exhausted: the seed is consumed and the cluster appended.
InnerDone ==
    /\ pc = "inner"
    /\ j > Len(all_clients)
    /\ processed' = processed \cup {i}
    /\ merged' = Append(merged, FinishCluster(merged_client))
    /\ members' = Append(members, cur_members)
    /\ i' = i + 1
    /\ pc' = "outer"
    /\ UNCHANGED <<variant, threshold, min_sessions, all_clients, j, merged_client,
                   cur_members, loyal, outcome>>
    /\ UNCHANGED <<walk_vars, out_vars, gui_vars, fn_vars>>

\* Outer loop exhausted: merge_duplicate_clients returns merged.
OuterExit ==
    /\ pc = "outer"
    /\ i > Len(all_clients)
    /\ pc' = "filter"
    /\ UNCHANGED <<variant, threshold, min_sessions, all_clients, i, j, processed,
                   merged_client, merged, cur_members, members, loyal, outcome>>
    /\ UNCHANGED <<walk_vars, out_vars, gui_vars, fn_vars>>

\* ---------------------------------------------------------------- loyalty filter

RECURSIVE filter_loyal_clients_Strict(_, _)
filter_loyal_clients_Strict(cl, min) ==
    IF cl = <<>> THEN <<>>
    ELSE (IF Head(cl).nb_seances > min THEN <<Head(cl)>> ELSE <<>>)
         \o filter_loyal_clients_Strict(Tail(cl), min)

\* [c for c in clients if c['nb_seances'] >= min_sessions]
RECURSIVE filter_loyal_clients(_, _)
filter_loyal_clients(cl, min) ==
    IF cl = <<>> THEN <<>>
    ELSE (IF Head(cl).nb_seances >= min THEN <<Head(cl)>> ELSE <<>>)
         \o filter_loyal_clients(Tail(cl), min)

\* main() / _run_pipeline: the filter step and the `if not loyal` return.
Filter ==
    /\ pc = "filter"
    /\ loyal' = filter_loyal_clients(merged, min_sessions)
    /\ stages' = Append(stages, "filter")
    /\ IF IsEmptyList(loyal')
       THEN pc' = "done" /\ outcome' = "nothing_qualifies"
       ELSE pc' = "export" /\ outcome' = outcome
    /\ UNCHANGED <<variant, threshold, min_sessions, all_clients, i, j, processed,
                   merged_client, merged, cur_members, members>>
    /\ UNCHANGED <<walk_vars, written, gui_vars, fn_vars>>

\* ---------------------------------------------------------------- export

\* The characters of the model in the order of their code points.
CodePointOrder ==
    <<"\n", "\r", " ", "+", ",", "-", ".", "/",
      "0", "1", "2", "3", "4", "5", "6", "7", "8", "9", ";",
      "A", "B", "C", "D", "E", "F", "G", "H", "I", "J", "K", "L", "M",
      "N", "O", "P", "Q", "R", "S", "T", "U", "V", "W", "X", "Y", "Z",
      "a", "b", "c", "d", "e", "f", "g", "h", "i", "j", "k", "l", "m",
      "n", "o", "p", "q", "r", "s", "t", "u", "v", "w", "x", "y", "z",
      "|", "É", "×", "é", "÷">>

\* The rank of a character among the characters of the model.
CodePoint(c) == CHOOSE k \in 1..Len(CodePointOrder) : CodePointOrder[k] = c

\* a < b for two str values.
RECURSIVE StrLess(_, _)
StrLess(a, b) ==
    IF b = <<>> THEN FALSE
    ELSE IF a = <<>> THEN TRUE
    ELSE IF Head(a) # Head(b) THEN CodePoint(Head(a)) < CodePoint(Head(b))
    ELSE StrLess(Tail(a), Tail(b))

KeyLess_FewestFirst(c1, c2) ==
    \/ c1.nb_seances < c2.nb_seances
    \/ c1.nb_seances = c2.nb_seances /\ StrLess(c1.nom, c2.nom)
    \/ c1.nb_seances = c2.nb_seances /\ c1.nom = c2.nom /\ StrLess(c1.prenom, c2.prenom)

\* key(c1) < key(c2) for key = lambda c: (-c['nb_seances'], c['nom'], c['prenom'])
KeyLess(c1, c2) ==
    \/ c1.nb_seances > c2.nb_seances
    \/ c1.nb_seances = c2.nb_seances /\ StrLess(c1.nom, c2.nom)
    \/ c1.nb_seances = c2.nb_seances /\ c1.nom = c2.nom /\ StrLess(c1.prenom, c2.prenom)

\* c put into the sorted list sl behind every element whose key is not greater.
RECURSIVE InsertSorted(_, _)
InsertSorted(sl, c) ==
    IF sl = <<>> THEN <<c>>
    ELSE IF KeyLess(c, Head(sl)) THEN <<c>> \o sl
    ELSE <<Head(sl)>> \o InsertSorted(Tail(sl), c)

\* sorted(clients, key=...): stable.
RECURSIVE Sorted(_)
Sorted(cl) ==
    IF cl = <<>> THEN <<>>
    ELSE InsertSorted(Sorted(SubSeq(cl, 1, Len(cl) - 1)), cl[Len(cl)])

\* The row of a client in the standard file.
StandardRow(c) ==
    [Nom |-> c.nom, Prenom |-> c.prenom, Telephone |-> c.telephone,
     Seances |-> c.nb_seances]

\* The row of a client in the Odoo file; Notes holds the session count.
OdooRow(c, include_tags) ==
    [Name  |-> IF c.prenom # <<>> THEN c.prenom \o <<" ">> \o c.nom ELSE c.nom,
     Phone |-> c.telephone,
     Tags  |-> include_tags,
     Notes |-> c.nb_seances]

\* export_to_csv / export_standard_csv: the rows written.
export_standard(clients_sorted) ==
    [k \in 1..Len(clients_sorted) |-> StandardRow(clients_sorted[k])]

\* export_to_odoo_format / export_odoo_csv: the rows written.
export_odoo(clients_sorted, include_tags) ==
    [k \in 1..Len(clients_sorted) |-> OdooRow(clients_sorted[k], include_tags)]

\* No file written.
NothingWritten == [std |-> <<>>, odoo |-> <<>>]

\* main() / _run_pipeline: the export step. src/main.py writes both files;
\* src/radiance_crm_app.py writes those the user ticked, the Odoo file with or
\* without the Tags column.
Export ==
    /\ pc = "export"
    /\ \E std_on, odoo_on, include_tags \in BOOLEAN :
          /\ variant = "main" => std_on /\ odoo_on /\ include_tags
          /\ written' = [std  |-> IF std_on THEN export_standard(Sorted(loyal)) ELSE <<>>,
                         odoo |-> IF odoo_on THEN export_odoo(Sorted(loyal), include_tags)
                                  ELSE <<>>]
    /\ stages' = Append(stages, "export")
    /\ outcome' = "export"
    /\ pc' = "done"
    /\ UNCHANGED <<variant, threshold, min_sessions, all_clients, i, j, processed,
                   merged_client, merged, cur_members, members, loyal>>
    /\ UNCHANGED <<walk_vars, gui_vars, fn_vars>>

\* ---------------------------------------------------------------- table walker

\* The client entry the walker creates.
Raw(nom, prenom, tel, dates, src) ==
    [nom |-> nom, prenom |-> prenom, telephone |-> tel, dates |-> dates,
     nb_seances |-> Len(dates), source_file |-> src]

\* Whether keyword kw occurs in text h.
Contains(h, kw) ==
    \E k \in 1..(Len(h) - Len(kw) + 1) : SubSeq(h, k, k + Len(kw) - 1) = kw

name_keywords ==
    { <<"n","o","m">>, <<"p","r","é","n","o","m">>, <<"p","r","e","n","o","m">>,
      <<"n","a","m","e">>, <<"c","l","i","e","n","t">> }

date_keywords ==
    { <<"d","a","t","e">>, <<"s","é","a","n","c","e">>, <<"s","e","a","n","c","e">>,
      <<"r","e","n","d","e","z">>, <<"r","d","v">> }

phone_keywords ==
    { <<"t","e","l">>, <<"t","é","l">>, <<"p","h","o","n","e">>,
      <<"p","o","r","t","a","b","l","e">>, <<"m","o","b","i","l","e">> }

\* [flatten_cell_content(cell).lower() for cell in header_row]
HeaderTexts(header_row) ==
    [k \in 1..Len(header_row) |-> Lower(flatten_cell_content(header_row[k]))]

\* next((i for i, h in enumerate(header_texts) if any(k in h for k in kws)), None):
\* the first column whose header holds a keyword, 0 for None.
FirstColumn(header_texts, kws) ==
    LET hits == {k \in 1..Len(header_texts) :
                    \E kw \in kws : Contains(header_texts[k], kw)}
    IN  IF hits = {} THEN 0 ELSE CHOOSE k \in hits : \A n \in hits : k <= n

\* `if not nom: continue`
KeepsFragment_Always(parsed) == TRUE

KeepsFragment(parsed) == parsed[1] # <<>>

\* src/main.py, one row: the union of the dates of every column after the first.
RowDates_main(row) ==
    Range(ConcatAll([c \in 1..(Len(row) - 1) |->
                        parse_dates_main(flatten_cell_content(row[c + 1]))]))

\* [parse_name(client_text) for client_text in client_texts]
ParseAll(client_texts) ==
    [k \in 1..Len(client_texts) |-> parse_name(client_texts[k])]

\* src/main.py: the client entries of the parsed fragments that are kept.
RecordsOf(kept, unique_dates, filename) ==
    [k \in 1..Len(kept) |->
        Raw(kept[k][1], kept[k][2], kept[k][3], unique_dates, filename)]

\* src/main.py, one row: the client entries appended for it.
RowRecords_main(row, filename) ==
    IF row = <<>> \/ flatten_cell_content(row[1]) = <<>> THEN <<>>
    ELSE RecordsOf(SelectSeq(ParseAll(split_clients_in_cell(flatten_cell_content(row[1]))),
                             KeepsFragment),
                   SortedDates(RowDates_main(row)), filename)

\* src/radiance_crm_app.py, one row: the set of the dates of the date column.
RowDates_app(row) ==
    IF date_col # 0 /\ Len(row) >= date_col
    THEN parse_dates_app(flatten_cell_content(row[date_col]))
    ELSE {}

PhoneOr_NameFirst(phone, phone_from_name) ==
    IF phone_from_name # <<>> THEN phone_from_name ELSE phone

\* `normalize_phone(phone_text) or phone_from_name`
PhoneOr(phone, phone_from_name) == IF phone # <<>> THEN phone ELSE phone_from_name

\* src/radiance_crm_app.py: the telephone number of a row.
RowPhone(row, phone_from_name) ==
    IF phone_col # 0 /\ Len(row) >= phone_col
    THEN PhoneOr(normalize_phone(flatten_cell_content(row[phone_col])), phone_from_name)
    ELSE phone_from_name

\* src/radiance_crm_app.py: the client entry of a row whose name cell parsed
\* to `parsed`.
RecordOf_app(row, filename, dates, parsed) ==
    IF ~KeepsFragment(parsed) THEN <<>>
    ELSE <<Raw(parsed[1], parsed[2], RowPhone(row, parsed[3]), dates, filename)>>

\* src/radiance_crm_app.py, one row: the client entries appended for it, dates
\* being list(set(...)) of the row's dates.
RowRecords_app(row, filename, dates) ==
    IF Len(row) < name_col THEN <<>>
    ELSE RecordOf_app(row, filename, dates, parse_name(flatten_cell_content(row[name_col])))

CurDoc == docs[doc_idx]

CurTable == CurDoc.body[table_idx]

CurRow == CurTable[row_idx]

\* Whether the walker passes over a table without reading its rows.
TableSkipped(table) ==
    IF variant = "main" THEN table = <<>>
    ELSE IF Len(table) < 2 THEN TRUE
         ELSE FirstColumn(HeaderTexts(table[1]), name_keywords) = 0

\* extract_clients_from_docx: the document reader opens the document.
OpenDoc ==
    /\ pc = "open"
    /\ doc_idx <= Len(docs)
    /\ CurDoc.readable
    /\ clients' = <<>>
    /\ table_idx' = 1
    /\ pc' = "table"
    /\ UNCHANGED <<variant, threshold, min_sessions, all_clients, i, j, processed,
                   merged_client, merged, cur_members, members, loyal, outcome,
                   docs, doc_idx, row_idx, name_col, date_col, phone_col>>
    /\ UNCHANGED <<extracted, out_vars, gui_vars, fn_vars>>

\* Whether an exception is raised when the walker reaches the current row.
RaisesHere == CurDoc.raises_at = <<table_idx, row_idx>>

NextDocument_None(k) == Len(docs) + 1

\* process_all_docx_files: the document the loop turns to after docs[k],
\* whether extract_clients_from_docx found entries in it or caught an exception.
NextDocument(k) == k + 1

\* extract_clients_from_docx: the document reader raises; the function logs
\* the error and returns its empty list, and the batch goes on.
OpenDocFails ==
    /\ pc = "open"
    /\ doc_idx <= Len(docs)
    /\ ~CurDoc.readable
    /\ clients' = <<>>
    /\ extracted' = Append(extracted, <<>>)
    /\ doc_idx' = NextDocument(doc_idx)
    /\ UNCHANGED <<variant, threshold, min_sessions, pc, all_clients, i, j, processed,
                   merged_client, merged, cur_members, members, loyal, outcome,
                   docs, table_idx, row_idx, name_col, date_col, phone_col>>
    /\ UNCHANGED <<out_vars, gui_vars, fn_vars>>

\* extract_clients_from_docx: an exception is raised while the rows are walked;
\* the except clause logs it and the function returns the list `clients` as it
\* stands, which process_all_docx_files appends to all_clients.
RowRaises ==
    /\ pc = "row"
    /\ row_idx <= Len(CurTable)
    /\ RaisesHere
    /\ all_clients' = all_clients \o clients
    /\ extracted' = Append(extracted, clients)
    /\ doc_idx' = NextDocument(doc_idx)
    /\ pc' = "open"
    /\ UNCHANGED <<variant, threshold, min_sessions, i, j, processed,
                   merged_client, merged, cur_members, members, loyal, outcome,
                   docs, table_idx, row_idx, clients, name_col, date_col, phone_col>>
    /\ UNCHANGED <<out_vars, gui_vars, fn_vars>>

\* A table without rows (src/main.py), or with fewer than two rows or no name
\* column in its header (src/radiance_crm_app.py), is passed over.
SkipTable ==
    /\ pc = "table"
    /\ table_idx <= Len(CurDoc.body)
    /\ TableSkipped(CurTable)
    /\ table_idx' = table_idx + 1
    /\ UNCHANGED <<variant, threshold, min_sessions, pc, all_clients, i, j, processed,
                   merged_client, merged, cur_members, members, loyal, outcome,
                   docs, doc_idx, row_idx, clients, name_col, date_col, phone_col>>
    /\ UNCHANGED <<extracted, out_vars, gui_vars, fn_vars>>

\* The rows of a table are entered: from the first row (src/main.py), or from
\* the second, the first giving the columns (src/radiance_crm_app.py).
EnterTable ==
    /\ pc = "table"
    /\ table_idx <= Len(CurDoc.body)
    /\ ~TableSkipped(CurTable)
    /\ IF variant = "main"
       THEN /\ row_idx' = 1
            /\ UNCHANGED <<name_col, date_col, phone_col>>
       ELSE /\ row_idx' = 2
            /\ name_col' = FirstColumn(HeaderTexts(CurTable[1]), name_keywords)
            /\ date_col' = FirstColumn(HeaderTexts(CurTable[1]), date_keywords)
            /\ phone_col' = FirstColumn(HeaderTexts(CurTable[1]), phone_keywords)
    /\ pc' = "row"
    /\ UNCHANGED <<variant, threshold, min_sessions, all_clients, i, j, processed,
                   merged_client, merged, cur_members, members, loyal, outcome,
                   docs, doc_idx, table_idx, clients>>
    /\ UNCHANGED <<extracted, out_vars, gui_vars, fn_vars>>

\* One row of the table.
WalkRow ==
    /\ pc = "row"
    /\ row_idx <= Len(CurTable)
    /\ ~RaisesHere
    /\ IF variant = "main"
       THEN clients' = clients \o RowRecords_main(CurRow, CurDoc.name)
       ELSE \E dates \in ListsOf(RowDates_app(CurRow)) :
               clients' = clients \o RowRecords_app(CurRow, CurDoc.name, dates)
    /\ row_idx' = row_idx + 1
    /\ UNCHANGED <<variant, threshold, min_sessions, pc, all_clients, i, j, processed,
                   merged_client, merged, cur_members, members, loyal, outcome,
                   docs, doc_idx, table_idx, name_col, date_col, phone_col>>
    /\ UNCHANGED <<extracted, out_vars, gui_vars, fn_vars>>

\* The rows of the table are exhausted.
TableDone ==
    /\ pc = "row"
    /\ row_idx > Len(CurTable)
    /\ table_idx' = table_idx + 1
    /\ pc' = "table"
    /\ UNCHANGED <<variant, threshold, min_sessions, all_clients, i, j, processed,
                   merged_client, merged, cur_members, members, loyal, outcome,
                   docs, doc_idx, row_idx, clients, name_col, date_col, phone_col>>
    /\ UNCHANGED <<extracted, out_vars, gui_vars, fn_vars>>

\* The tables of the document are exhausted: extract_clients_from_docx returns
\* and process_all_docx_files extends all_clients.
DocDone ==
    /\ pc = "table"
    /\ table_idx > Len(CurDoc.body)
    /\ all_clients' = all_clients \o clients
    /\ extracted' = Append(extracted, clients)
    /\ doc_idx' = NextDocument(doc_idx)
    /\ pc' = "open"
    /\ UNCHANGED <<variant, threshold, min_sessions, i, j, processed,
                   merged_client, merged, cur_members, members, loyal, outcome,
                   docs, table_idx, row_idx, clients, name_col, date_col, phone_col>>
    /\ UNCHANGED <<out_vars, gui_vars, fn_vars>>

\* The documents are exhausted: process_all_docx_files returns all_clients.
BatchDone ==
    /\ pc = "open"
    /\ doc_idx > Len(docs)
    /\ pc' = "extracted"
    /\ UNCHANGED <<variant, threshold, min_sessions, all_clients, i, j, processed,
                   merged_client, merged, cur_members, members, loyal, outcome,
                   walk_vars>>
    /\ UNCHANGED <<out_vars, gui_vars, fn_vars>>

\* ---------------------------------------------------------------- inputs

Variants == {"main", "app"}

\* Fuzzy thresholds: the default, the value of the telephone boost, exact match.
Thresholds == {85, 95, 100}

\* Loyalty thresholds: the default and the smallest the GUI offers.
MinSessionsRange == {1, 2}

D1 == <<12, 3, 2024>>

D2 == <<5, 4, 2024>>

D3 == <<20, 1, 2025>>

Tel10a == <<"0","6","1","2","3","4","5","6","7","8">>

Tel10b == <<"0","7","9","8","7","6","5","4","3","2">>

Tel9 == <<"0","6","1","2","3","4","5","6","7">>

\* Raw records as the table walker emits them.
RawPool ==
    { Raw(<<"A","b","c","d">>, <<"E","f">>, Tel10a, <<D1>>, "f1"),
      Raw(<<"A","b","c">>, <<"E","f">>, <<>>, <<D2>>, "f1"),
      Raw(<<"B","c","d">>, <<"E","f">>, Tel9, <<D2, D1, D3>>, "f2"),
      Raw(<<"X","y","z">>, <<>>, Tel10a, <<D1, D3>>, "f2"),
      Raw(<<"A","b","c","d">>, <<"E","f">>, Tel10b, <<>>, "f2") }

\* A table with a header row; its last row names two clients in one cell.
\*   'Nom' | 'Date' | 'Tel'
\*   'Abcd Ef 0612345678' | '12/03/2024' | ''
\*   'abc ef;Xyz' | '5/4/24, 12/03/2024' | '06 12 34 56 78'
TableHeaded ==
    <<<<StrCell(<<"N","o","m">>),
           StrCell(<<"D","a","t","e">>),
           StrCell(<<"T","e","l">>)>>,
      <<StrCell(<<"A","b","c","d"," ","E","f"," ","0","6","1","2","3","4","5","6","7","8">>),
           StrCell(<<"1","2","/","0","3","/","2","0","2","4">>),
           StrCell(<<>>)>>,
      <<StrCell(<<"a","b","c"," ","e","f",";","X","y","z">>),
           StrCell(<<"5","/","4","/","2","4",","," ","1","2","/","0","3","/","2","0","2","4">>),
           StrCell(<<"0","6"," ","1","2"," ","3","4"," ","5","6"," ","7","8">>)>>>>

\* A table without header; a cell whose second line is a telephone number
\* without a name, a row without a name, a nested name cell ['Abcd', ['Ef']].
\*   'Bcd Ef\\n× 0612345678' | '20/01/2025' | '12/03/2024;45/13/2024'
\*   '22 02' | '01/01/1987'
\*   "'Abcd Ef'" | '12/03/2024'
TablePositional ==
    <<<<StrCell(<<"B","c","d"," ","E","f","\n","×"," ","0","6","1","2","3","4","5","6","7","8">>),
           StrCell(<<"2","0","/","0","1","/","2","0","2","5">>),
           StrCell(<<"1","2","/","0","3","/","2","0","2","4",";","4","5","/","1","3","/","2","0","2","4">>)>>,
      <<StrCell(<<"2","2"," ","0","2">>),
           StrCell(<<"0","1","/","0","1","/","1","9","8","7">>)>>,
      <<ListCell(<<StrCell(<<"A","b","c","d">>), ListCell(<<StrCell(<<"E","f">>)>>)>>),
           StrCell(<<"1","2","/","0","3","/","2","0","2","4">>)>>>>

\* A table with a header row and no telephone column.
\*   'Client' | 'Séance'
\*   '× 0612345678' | '12/03/2024'
\*   'Xyz\\nabc ef' | '20/01/2025,12/03/2024'
\*   'Xyz'
TableSessions ==
    <<<<StrCell(<<"C","l","i","e","n","t">>),
           StrCell(<<"S","é","a","n","c","e">>)>>,
      <<StrCell(<<"×"," ","0","6","1","2","3","4","5","6","7","8">>),
           StrCell(<<"1","2","/","0","3","/","2","0","2","4">>)>>,
      <<StrCell(<<"X","y","z","\n","a","b","c"," ","e","f">>),
           StrCell(<<"2","0","/","0","1","/","2","0","2","5",",","1","2","/","0","3","/","2","0","2","4">>)>>,
      <<StrCell(<<"X","y","z">>)>>>>

\* A table with a header row and a single column.
\*   'Nom'
\*   'Abcd Ef 0612345678'
TableNoPhone ==
    <<<<StrCell(<<"N","o","m">>)>>,
      <<StrCell(<<"A","b","c","d"," ","E","f"," ","0","6","1","2","3","4","5","6","7","8">>)>>>>

\* A table with a telephone column: a row with one telephone number in the name
\* cell and another in the telephone cell, a row whose telephone cell holds too
\* few digits, a row without telephone cell, and a last row.
\*   'Client' | 'Téléphone' | 'RDV'
\*   'Bcd Ef 0612345678' | '07 98 76 54 32' | '20/01/2025'
\*   'Xyz 0612345678' | '12345' | '12/03/2024'
\*   'Xyz 0612345678'
\*   'Abc Ef' | '' | '5/4/24'
TablePhones ==
    <<<<StrCell(<<"C","l","i","e","n","t">>),
           StrCell(<<"T","é","l","é","p","h","o","n","e">>),
           StrCell(<<"R","D","V">>)>>,
      <<StrCell(<<"B","c","d"," ","E","f"," ","0","6","1","2","3","4","5","6","7","8">>),
           StrCell(<<"0","7"," ","9","8"," ","7","6"," ","5","4"," ","3","2">>),
           StrCell(<<"2","0","/","0","1","/","2","0","2","5">>)>>,
      <<StrCell(<<"X","y","z"," ","0","6","1","2","3","4","5","6","7","8">>),
           StrCell(<<"1","2","3","4","5">>),
           StrCell(<<"1","2","/","0","3","/","2","0","2","4">>)>>,
      <<StrCell(<<"X","y","z"," ","0","6","1","2","3","4","5","6","7","8">>)>>,
      <<StrCell(<<"A","b","c"," ","E","f">>),
           StrCell(<<>>),
           StrCell(<<"5","/","4","/","2","4">>)>>>>

\* A document as docx2python reads it: its file name, whether the reader
\* opens it, and the tables of its body; nothing raises while its rows are walked.
Doc(name, readable, body) ==
    [name |-> name, readable |-> readable, body |-> body, raises_at |-> <<0, 0>>]

\* A document the reader opens, and in whose walk an exception is raised on
\* reaching row r of table t.
DocRaisingAt(name, body, t, r) ==
    [name |-> name, readable |-> TRUE, body |-> body, raises_at |-> <<t, r>>]

DocPool ==
    { Doc("f1", TRUE, <<TableHeaded>>),
      Doc("f2", TRUE, <<<<>>, TablePositional>>),
      Doc("f3", FALSE, <<>>),
      Doc("f4", TRUE, <<TableSessions>>),
      DocRaisingAt("f5", <<TableNoPhone, TablePhones>>, 2, 5) }

SeqsUpTo(S, n) == UNION {[1..k -> S] : k \in 0..n}

\* The graphical interface is not part of the run.
GuiUnused ==
    /\ is_running = FALSE
    /\ input_dir = FALSE
    /\ missing_deps = FALSE
    /\ threads = <<>>
    /\ after_queue = <<>>
    /\ run_btn = "normal"
    /\ status = "ready"

\* No text function is applied on its own.
FnUnused ==
    /\ fn_in = <<>>
    /\ fn_name = "none"
    /\ fn_out = <<>>

\* The state when process_all_docx_files has returned.
Init ==
    /\ variant \in Variants
    /\ threshold \in Thresholds
    /\ min_sessions \in MinSessionsRange
    /\ all_clients \in SeqsUpTo(RawPool, MaxClients)
    /\ pc = "extracted"
    /\ i = 0
    /\ j = 0
    /\ processed = {}
    /\ merged_client = NoCluster
    /\ merged = <<>>
    /\ cur_members = {}
    /\ members = <<>>
    /\ loyal = <<>>
    /\ outcome = "running"
    /\ docs = <<>>
    /\ doc_idx = 0
    /\ table_idx = 0
    /\ row_idx = 0
    /\ clients = <<>>
    /\ name_col = 0
    /\ date_col = 0
    /\ phone_col = 0
    /\ extracted = <<>>
    /\ stages = <<>>
    /\ written = NothingWritten
    /\ GuiUnused
    /\ FnUnused

\* The state when main() / _run_pipeline starts on a batch of documents, with
\* the default fuzzy threshold.
InitWalk ==
    /\ variant \in Variants
    /\ threshold = 85
    /\ min_sessions \in MinSessionsRange
    /\ docs \in SeqsUpTo(DocPool, MaxDocs)
    /\ pc = "open"
    /\ doc_idx = 1
    /\ table_idx = 0
    /\ row_idx = 0
    /\ clients = <<>>
    /\ name_col = 0
    /\ date_col = 0
    /\ phone_col = 0
    /\ all_clients = <<>>
    /\ i = 0
    /\ j = 0
    /\ processed = {}
    /\ merged_client = NoCluster
    /\ merged = <<>>
    /\ cur_members = {}
    /\ members = <<>>
    /\ loyal = <<>>
    /\ outcome = "running"
    /\ extracted = <<>>
    /\ stages = <<>>
    /\ written = NothingWritten
    /\ GuiUnused
    /\ FnUnused

Next ==
    \/ CheckExtracted
    \/ MergeStart
    \/ OuterSkip
    \/ OuterSeed
    \/ InnerSkip
    \/ InnerCompare
    \/ InnerDone
    \/ OuterExit
    \/ Filter
    \/ Export

Spec == Init /\ [][Next]_vars

NextWalk ==
    \/ OpenDoc
    \/ OpenDocFails
    \/ SkipTable
    \/ EnterTable
    \/ WalkRow
    \/ RowRaises
    \/ TableDone
    \/ DocDone
    \/ BatchDone
    \/ Next

SpecWalk == InitWalk /\ [][NextWalk]_vars

\* ---------------------------------------------------------------- graphical interface

\* The greatest number of worker threads started in a behaviour.
MaxRuns == 3

\* The stages of the pipeline, in the order _run_pipeline runs them.
PipelineStages == <<"extract", "merge", "filter", "export">>

\* A worker thread: where it is in _run_pipeline ("start" before the first
\* stage, "report" between the last stage it runs and its call of _done,
\* "ended" after that call) and the argument it gives to _done.
Worker(at, success) == [at |-> at, success |-> success]

\* self.after(0, lambda: self.status_var.set(msg))
SetStatus(msg) == [fn |-> "set_status", arg |-> msg]

\* self.after(0, _do) of _done
Do(success) == [fn |-> "_do", arg |-> success]

\* `if self.is_running: return`
AlreadyRunning_Never == FALSE

AlreadyRunning == is_running

\* The user picks the source folder.
Browse ==
    /\ pc = "gui"
    /\ ~input_dir
    /\ input_dir' = TRUE
    /\ UNCHANGED <<is_running, missing_deps, threads, after_queue, run_btn, status>>
    /\ UNCHANGED <<variant, threshold, min_sessions, pc, all_clients, i, j, processed,
                   merged_client, merged, cur_members, members, loyal, outcome>>
    /\ UNCHANGED <<walk_vars, out_vars, fn_vars>>

\* _start_pipeline, past its three early returns: the worker thread is started.
StartPipeline ==
    /\ pc = "gui"
    /\ Len(threads) < MaxRuns
    /\ ~AlreadyRunning
    /\ input_dir
    /\ ~missing_deps
    /\ is_running' = TRUE
    /\ run_btn' = "disabled"
    /\ after_queue' = Append(after_queue, SetStatus("running"))
    /\ threads' = Append(threads, Worker("start", FALSE))
    /\ UNCHANGED <<input_dir, missing_deps, status>>
    /\ UNCHANGED <<variant, threshold, min_sessions, pc, all_clients, i, j, processed,
                   merged_client, merged, cur_members, members, loyal, outcome>>
    /\ UNCHANGED <<walk_vars, out_vars, fn_vars>>

\* The threads with t moved to position at, its argument for _done being success.
Moved(t, at, success) == [threads EXCEPT ![t] = Worker(at, success)]

AfterStage_SilentWhenNoneLoyal(at, some_clients) ==
    CASE at = "extract" -> IF some_clients THEN Worker("merge", FALSE)
                           ELSE Worker("report", FALSE)
      [] at = "merge"   -> Worker("filter", FALSE)
      [] at = "filter"  -> IF some_clients THEN Worker("export", FALSE)
                           ELSE Worker("ended", FALSE)
      [] at = "export"  -> Worker("report", TRUE)

\* Where a worker goes when the stage it is in returns; some_clients tells
\* whether the list the stage returned is not empty.
AfterStage(at, some_clients) ==
    CASE at = "extract" -> IF some_clients THEN Worker("merge", FALSE)
                           ELSE Worker("report", FALSE)
      [] at = "merge"   -> Worker("filter", FALSE)
      [] at = "filter"  -> IF some_clients THEN Worker("export", FALSE)
                           ELSE Worker("report", FALSE)
      [] at = "export"  -> Worker("report", TRUE)

\* _run_pipeline: the worker thread enters its first stage.
WorkerEnter(t) ==
    /\ pc = "gui"
    /\ threads[t].at = "start"
    /\ threads' = Moved(t, "extract", FALSE)
    /\ UNCHANGED <<is_running, input_dir, missing_deps, after_queue, run_btn, status>>
    /\ UNCHANGED <<variant, threshold, min_sessions, pc, all_clients, i, j, processed,
                   merged_client, merged, cur_members, members, loyal, outcome>>
    /\ UNCHANGED <<walk_vars, out_vars, fn_vars>>

\* _run_pipeline: the stage the worker is in returns.
StageReturns(t) ==
    /\ pc = "gui"
    /\ threads[t].at \in Range(PipelineStages)
    /\ \E some_clients \in BOOLEAN :
          threads' = [threads EXCEPT ![t] = AfterStage(threads[t].at, some_clients)]
    /\ UNCHANGED <<is_running, input_dir, missing_deps, after_queue, run_btn, status>>
    /\ UNCHANGED <<variant, threshold, min_sessions, pc, all_clients, i, j, processed,
                   merged_client, merged, cur_members, members, loyal, outcome>>
    /\ UNCHANGED <<walk_vars, out_vars, fn_vars>>

\* _run_pipeline: the stage the worker is in raises; `except Exception`.
StageRaises(t) ==
    /\ pc = "gui"
    /\ threads[t].at \in Range(PipelineStages)
    /\ threads' = Moved(t, "report", FALSE)
    /\ UNCHANGED <<is_running, input_dir, missing_deps, after_queue, run_btn, status>>
    /\ UNCHANGED <<variant, threshold, min_sessions, pc, all_clients, i, j, processed,
                   merged_client, merged, cur_members, members, loyal, outcome>>
    /\ UNCHANGED <<walk_vars, out_vars, fn_vars>>

\* _done, called by the worker: _do is handed to the main loop and the worker
\* returns.
Done(t) ==
    /\ pc = "gui"
    /\ threads[t].at = "report"
    /\ after_queue' = Append(after_queue, Do(threads[t].success))
    /\ threads' = Moved(t, "ended", threads[t].success)
    /\ UNCHANGED <<is_running, input_dir, missing_deps, run_btn, status>>
    /\ UNCHANGED <<variant, threshold, min_sessions, pc, all_clients, i, j, processed,
                   merged_client, merged, cur_members, members, loyal, outcome>>
    /\ UNCHANGED <<walk_vars, out_vars, fn_vars>>

\* The main loop runs the oldest callback: a change of the status line, or
\* _do of _done, which clears is_running, enables the button and asks for the
\* closing status line.
RunAfter ==
    /\ pc = "gui"
    /\ after_queue # <<>>
    /\ IF Head(after_queue).fn = "_do"
       THEN /\ is_running' = FALSE
            /\ run_btn' = "normal"
            /\ after_queue' = Append(Tail(after_queue),
                                     SetStatus(IF Head(after_queue).arg
                                               THEN "success" ELSE "errors"))
            /\ status' = status
       ELSE /\ status' = Head(after_queue).arg
            /\ after_queue' = Tail(after_queue)
            /\ UNCHANGED <<is_running, run_btn>>
    /\ UNCHANGED <<input_dir, missing_deps, threads>>
    /\ UNCHANGED <<variant, threshold, min_sessions, pc, all_clients, i, j, processed,
                   merged_client, merged, cur_members, members, loyal, outcome>>
    /\ UNCHANGED <<walk_vars, out_vars, fn_vars>>

\* The window after RadianceCRMApp.__init__, no run started.
InitGui ==
    /\ variant = "app"
    /\ threshold = 85
    /\ min_sessions = 2
    /\ pc = "gui"
    /\ all_clients = <<>>
    /\ i = 0
    /\ j = 0
    /\ processed = {}
    /\ merged_client = NoCluster
    /\ merged = <<>>
    /\ cur_members = {}
    /\ members = <<>>
    /\ loyal = <<>>
    /\ outcome = "running"
    /\ docs = <<>>
    /\ doc_idx = 0
    /\ table_idx = 0
    /\ row_idx = 0
    /\ clients = <<>>
    /\ name_col = 0
    /\ date_col = 0
    /\ phone_col = 0
    /\ extracted = <<>>
    /\ stages = <<>>
    /\ written = NothingWritten
    /\ is_running = FALSE
    /\ input_dir = FALSE
    /\ missing_deps \in BOOLEAN
    /\ threads = <<>>
    /\ after_queue = <<>>
    /\ run_btn = "normal"
    /\ status = "ready"
    /\ FnUnused

NextGui ==
    \/ Browse
    \/ StartPipeline
    \/ \E t \in 1..Len(threads) : WorkerEnter(t)
    \/ \E t \in 1..Len(threads) : StageReturns(t)
    \/ \E t \in 1..Len(threads) : StageRaises(t)
    \/ \E t \in 1..Len(threads) : Done(t)
    \/ RunAfter

SpecGui == InitGui /\ [][NextGui]_vars

\* A step of worker thread t: _run_pipeline goes on, its stage returning or
\* raising, until it has called _done.
WorkerStep(t) ==
    /\ t <= Len(threads)
    /\ \/ WorkerEnter(t)
       \/ StageReturns(t)
       \/ StageRaises(t)
       \/ Done(t)

\* The window with a scheduler that lets every started thread run, stages
\* that end, and a main loop that keeps running the callbacks handed to it.
SpecGuiLive ==
    /\ InitGui
    /\ [][NextGui]_vars
    /\ \A t \in 1..MaxRuns : WF_vars(WorkerStep(t))
    /\ WF_vars(RunAfter)

\* ---------------------------------------------------------------- text functions on their own

\* The greatest number of tokens in a date cell.
MaxTokens == 2

\* Tokens of date cells.
DateTokenPool ==
    { <<"1","2","/","0","3","/","2","0","2","4">>,   \* '12/03/2024'
      <<"5","/","4","/","2","4">>,   \* '5/4/24'
      <<"1","2","/","0","3","/","1","9","8","7">>,   \* '12/03/1987'
      <<"0","1","/","0","1","/","2","0","9","9">>,   \* '01/01/2099'
      <<"4","5","/","1","3","/","2","0","2","4">>,   \* '45/13/2024'
      <<"7","/","8">>,   \* '7/8'
      <<"l","e"," ","7","/","8">>,   \* 'le 7/8'
      <<"l","e"," ","3",".","2",".","7","5">>,   \* 'le 3.2.75'
      <<"3","1","-","1","2","-","2","0","3","0">> }   \* '31-12-2030'

\* Texts of name cells.
NamePool ==
    { <<"D","u","p","o","n","t"," ","M","a","r","i","e"," ","0","6","0","1","0","2","0","3","0","4">>,   \* 'Dupont Marie 0601020304'
      <<"2","2"," ","0","2">>,   \* '22 02'
      <<"A","b","c"," ","0","6","1","2","3","4","5","6","7","8"," ","0","7","9","8","7","6","5","4","3","2">>,   \* 'Abc 0612345678 0798765432'
      <<"d","u","p","o","n","t">>,   \* 'dupont'
      <<"D","U","P","O","N","T"," ","m","a","r","i","e"," ","c","l","a","i","r","e">>,   \* 'DUPONT marie claire'
      <<"1","2","/","0","3"," ","D","u","p","o","n","t">>,   \* '12/03 Dupont'
      <<"1",".","2","a","b","c">>,   \* '1.2abc'
      <<"A">>,   \* 'A'
      <<>>,   \* ''
      <<"×"," ","0","6"," ","1","2"," ","3","4"," ","5","6"," ","7","8">>,   \* '× 06 12 34 56 78'
      <<"A","b","c"," ","+","3","3"," ","6","1","2"," ","3","4","5"," ","6","7","8">>,   \* 'Abc +33 612 345 678'
      <<"X","y","z"," ","0","6","1","2","3","4","5","6","7">>,   \* 'Xyz 061234567'
      <<"X","y","z"," ","1","2","3","4","5","6","7","8">>,   \* 'Xyz 12345678'
      <<"a","b","-","c","d",","," ","e","f">>,   \* 'ab-cd, ef'
      <<" ","A","b","c","\t","E","f"," ">>,   \* ' Abc\tEf '
      <<"0","6","1","2","3","4","5","6","7","8">>,   \* '0612345678'
      <<"A","b"," ","0","6",".","1","2",".","3","4",".","5","6",".","7","8"," ","c","d">>,   \* 'Ab 06.12.34.56.78 cd'
      <<"0","6"," ","1","2"," ","3","4"," ","5","6"," ","7","8"," ","A","b","c"," ","0","7"," ","9","8"," ","7","6"," ","5","4"," ","3","2">>,   \* '06 12 34 56 78 Abc 07 98 76 54 32'
      <<"3","/","4">>,   \* '3/4'
      <<"-","."," ","/">>,   \* '-. /'
      <<"É">>,   \* 'É'
      <<"A","b","c"," ","1","2",".","0","3",".","2","0","2","4"," ","0","6","1","2","3","4","5","6","7","8"," ","x">> }   \* 'Abc 12.03.2024 0612345678 x'

\* The tokens joined as they stand in a cell: 'a, b'.
RECURSIVE JoinTokens(_)
JoinTokens(tokens) ==
    IF tokens = <<>> THEN <<>>
    ELSE IF Len(tokens) = 1 THEN tokens[1]
    ELSE tokens[1] \o <<",", " ">> \o JoinTokens(Tail(tokens))

\* Texts of date cells: up to MaxTokens tokens.
DatePool == {JoinTokens(tokens) : tokens \in SeqsUpTo(DateTokenPool, MaxTokens)}

\* A text is handed to one of the text functions.
InitFn ==
    /\ variant \in Variants
    /\ threshold = 85
    /\ min_sessions = 2
    /\ pc = "fn"
    /\ all_clients = <<>>
    /\ i = 0
    /\ j = 0
    /\ processed = {}
    /\ merged_client = NoCluster
    /\ merged = <<>>
    /\ cur_members = {}
    /\ members = <<>>
    /\ loyal = <<>>
    /\ outcome = "running"
    /\ docs = <<>>
    /\ doc_idx = 0
    /\ table_idx = 0
    /\ row_idx = 0
    /\ clients = <<>>
    /\ name_col = 0
    /\ date_col = 0
    /\ phone_col = 0
    /\ extracted = <<>>
    /\ stages = <<>>
    /\ written = NothingWritten
    /\ GuiUnused
    /\ fn_in \in NamePool \cup DatePool
    /\ fn_name = "none"
    /\ fn_out = <<>>

\* parse_dates(fn_in); list(set(dates)) of src/radiance_crm_app.py gives the
\* dates in any order.
ApplyParseDates ==
    /\ pc = "fn"
    /\ fn_name = "none"
    /\ fn_name' = "parse_dates"
    /\ IF variant = "main"
       THEN fn_out' = parse_dates_main(fn_in)
       ELSE fn_out' \in ListsOf(parse_dates_app(fn_in))
    /\ UNCHANGED <<variant, threshold, min_sessions, pc, all_clients, i, j, processed,
                   merged_client, merged, cur_members, members, loyal, outcome>>
    /\ UNCHANGED <<walk_vars, out_vars, gui_vars, fn_in>>

\* parse_name(fn_in)
ApplyParseName ==
    /\ pc = "fn"
    /\ fn_name = "none"
    /\ fn_name' = "parse_name"
    /\ fn_out' = parse_name(fn_in)
    /\ UNCHANGED <<variant, threshold, min_sessions, pc, all_clients, i, j, processed,
                   merged_client, merged, cur_members, members, loyal, outcome>>
    /\ UNCHANGED <<walk_vars, out_vars, gui_vars, fn_in>>

\* is_valid_name(fn_in)
ApplyIsValidName ==
    /\ pc = "fn"
    /\ fn_name = "none"
    /\ fn_name' = "is_valid_name"
    /\ fn_out' = is_valid_name(fn_in)
    /\ UNCHANGED <<variant, threshold, min_sessions, pc, all_clients, i, j, processed,
                   merged_client, merged, cur_members, members, loyal, outcome>>
    /\ UNCHANGED <<walk_vars, out_vars, gui_vars, fn_in>>

\* extract_phone_from_text(fn_in)
ApplyExtractPhone ==
    /\ pc = "fn"
    /\ fn_name = "none"
    /\ fn_name' = "extract_phone_from_text"
    /\ fn_out' = extract_phone_from_text(fn_in)
    /\ UNCHANGED <<variant, threshold, min_sessions, pc, all_clients, i, j, processed,
                   merged_client, merged, cur_members, members, loyal, outcome>>
    /\ UNCHANGED <<walk_vars, out_vars, gui_vars, fn_in>>

NextFn ==
    \/ ApplyParseDates
    \/ ApplyParseName
    \/ ApplyIsValidName
    \/ ApplyExtractPhone

SpecFn == InitFn /\ [][NextFn]_vars

\* ---------------------------------------------------------------- cells on their own

\* The greatest number of items in a list of leaves.
MaxItems == 2

\* Leaves of a cell: the strings '', ' ab ' and 'c d', and the values 0, 5 and
\* None, which are neither strings nor lists (0 and None are falsy).
LeafPool ==
    { StrCell(<<>>),
      StrCell(<<" ","a","b"," ">>),
      StrCell(<<"c"," ","d">>),
      OtherCell(<<"0">>, FALSE),
      OtherCell(<<"5">>, TRUE),
      OtherCell(<<"N","o","n","e">>, FALSE) }

\* Cells: a leaf, a list of up to MaxItems leaves, or a list [a, [[b]]] of a
\* leaf and a leaf nested twice.
CellPool ==
    LeafPool
    \cup {ListCell(items) : items \in SeqsUpTo(LeafPool, MaxItems)}
    \cup {ListCell(<<a, ListCell(<<ListCell(<<b>>)>>)>>) : a, b \in LeafPool}

\* A cell is handed to flatten_cell_content.
InitCell ==
    /\ variant \in Variants
    /\ threshold = 85
    /\ min_sessions = 2
    /\ pc = "fn"
    /\ all_clients = <<>>
    /\ i = 0
    /\ j = 0
    /\ processed = {}
    /\ merged_client = NoCluster
    /\ merged = <<>>
    /\ cur_members = {}
    /\ members = <<>>
    /\ loyal = <<>>
    /\ outcome = "running"
    /\ docs = <<>>
    /\ doc_idx = 0
    /\ table_idx = 0
    /\ row_idx = 0
    /\ clients = <<>>
    /\ name_col = 0
    /\ date_col = 0
    /\ phone_col = 0
    /\ extracted = <<>>
    /\ stages = <<>>
    /\ written = NothingWritten
    /\ GuiUnused
    /\ fn_in \in CellPool
    /\ fn_name = "none"
    /\ fn_out = <<>>

\* flatten_cell_content(fn_in)
ApplyFlatten ==
    /\ pc = "fn"
    /\ fn_name = "none"
    /\ fn_name' = "flatten_cell_content"
    /\ fn_out' = flatten_cell_content(fn_in)
    /\ UNCHANGED <<variant, threshold, min_sessions, pc, all_clients, i, j, processed,
                   merged_client, merged, cur_members, members, loyal, outcome>>
    /\ UNCHANGED <<walk_vars, out_vars, gui_vars, fn_in>>

NextCell == ApplyFlatten

SpecCell == InitCell /\ [][NextCell]_vars

\* ---------------------------------------------------------------- the fallback on its own

\* The two digits of a year 0..99.
TwoDigits(yy) ==
    LET digit == <<"0","1","2","3","4","5","6","7","8","9">>
    IN  <<digit[(yy \div 10) + 1], digit[(yy % 10) + 1]>>

\* The token day/month/yy, or day-month-yy, with a two-digit year.
YearToken(day, month, sep, yy) == day \o <<sep>> \o month \o <<sep>> \o TwoDigits(yy)

\* Tokens with a two-digit year: 5/4/yy and 31-12-yy for every yy.
YearTokenPool ==
    {YearToken(<<"5">>, <<"4">>, "/", yy) : yy \in 0..99}
    \cup {YearToken(<<"3","1">>, <<"1","2">>, "-", yy) : yy \in 0..99}

\* A token in which the library finds no date reaches the fallback.
InitYear ==
    /\ variant \in Variants
    /\ threshold = 85
    /\ min_sessions = 2
    /\ pc = "fn"
    /\ all_clients = <<>>
    /\ i = 0
    /\ j = 0
    /\ processed = {}
    /\ merged_client = NoCluster
    /\ merged = <<>>
    /\ cur_members = {}
    /\ members = <<>>
    /\ loyal = <<>>
    /\ outcome = "running"
    /\ docs = <<>>
    /\ doc_idx = 0
    /\ table_idx = 0
    /\ row_idx = 0
    /\ clients = <<>>
    /\ name_col = 0
    /\ date_col = 0
    /\ phone_col = 0
    /\ extracted = <<>>
    /\ stages = <<>>
    /\ written = NothingWritten
    /\ GuiUnused
    /\ fn_in \in YearTokenPool
    /\ fn_name = "none"
    /\ fn_out = <<>>

\* parse_dates on the token fn_in from `match = re.search(...)` on, the library
\* having found no date: the dates appended.
ApplyFallback ==
    /\ pc = "fn"
    /\ fn_name = "none"
    /\ fn_name' = "fallback"
    /\ fn_out' = IF variant = "main" THEN TokenDates_main(fn_in, NoDate)
                 ELSE TokenDates_app(fn_in, NoDate)
    /\ UNCHANGED <<variant, threshold, min_sessions, pc, all_clients, i, j, processed,
                   merged_client, merged, cur_members, members, loyal, outcome>>
    /\ UNCHANGED <<walk_vars, out_vars, gui_vars, fn_in>>

NextYear == ApplyFallback

SpecYear == InitYear /\ [][NextYear]_vars

\* ---------------------------------------------------------------- the threshold raised

\* merge_duplicate_clients as a function of the list and the threshold: the
\* number of merged clients returned. k is the index of the outer loop, done
\* the indices processed, count the clusters appended so far.
RECURSIVE CountClusters(_, _, _, _, _)
CountClusters(cl, t, k, done, count) ==
    IF k > Len(cl) THEN count
    ELSE IF k \in done THEN CountClusters(cl, t, k + 1, done, count)
    ELSE LET consumed == {m \in (k + 1)..Len(cl) :
                             /\ m \notin done
                             /\ ScoreAtLeast(calculate_similarity(cl[k], cl[m]), t)}
         IN  CountClusters(cl, t, k + 1, done \cup {k} \cup consumed, count + 1)

ClusterCount(cl, t) == CountClusters(cl, t, 1, {}, 0)

\* The indices the first record consumes at threshold t, itself included.
FirstCluster(cl, t) ==
    {1} \cup {m \in 2..Len(cl) : ScoreAtLeast(calculate_similarity(cl[1], cl[m]), t)}

\* Four close names, no two with the same telephone: Maia, Mara, Mar, Ara.
\* fuzz.ratio: Maia-Mara 75, Mara-Mar 85.7, Mara-Ara 85.7, Mar-Ara 66.7,
\* Maia-Mar 57.1, Maia-Ara 57.1.
CloseNamePool ==
    { Raw(<<"M","a","i","a">>, <<>>, Tel10a, <<D1>>, "f1"),
      Raw(<<"M","a","r","a">>, <<>>, <<>>, <<D2>>, "f1"),
      Raw(<<"M","a","r">>, <<>>, Tel10b, <<D1, D3>>, "f2"),
      Raw(<<"A","r","a">>, <<>>, <<>>, <<D3>>, "f2") }

\* Positions of the threshold slider (50..100, src/radiance_crm_app.py 474).
RaisedThresholds == {70, 85, 95}

\* The lists of records of S that hold no record twice.
ListsWithoutRepeats(S) == UNION {ListsOf(T) : T \in SUBSET S}

\* The state when merge_duplicate_clients is called on a list of close names.
InitRaise ==
    /\ variant \in Variants
    /\ threshold \in RaisedThresholds
    /\ min_sessions = 2
    /\ all_clients \in ListsWithoutRepeats(CloseNamePool)
    /\ pc = "merge"
    /\ i = 0
    /\ j = 0
    /\ processed = {}
    /\ merged_client = NoCluster
    /\ merged = <<>>
    /\ cur_members = {}
    /\ members = <<>>
    /\ loyal = <<>>
    /\ outcome = "running"
    /\ docs = <<>>
    /\ doc_idx = 0
    /\ table_idx = 0
    /\ row_idx = 0
    /\ clients = <<>>
    /\ name_col = 0
    /\ date_col = 0
    /\ phone_col = 0
    /\ extracted = <<>>
    /\ stages = <<>>
    /\ written = NothingWritten
    /\ GuiUnused
    /\ FnUnused

NextRaise ==
    \/ MergeStart
    \/ OuterSkip
    \/ OuterSeed
    \/ InnerSkip
    \/ InnerCompare
    \/ InnerDone
    \/ OuterExit

SpecRaise == InitRaise /\ [][NextRaise]_vars

\* ---------------------------------------------------------------- claims: deduplicator

\* merge_duplicate_clients has returned and filter_loyal_clients has not run yet.
MergeReturned == pc = "filter"

NumClients == Len(all_clients)

\* The seed of finished cluster k: its earliest member.
SeedOf(k) == CHOOSE s \in members[k] : \A m \in members[k] : s <= m

\* The records consumed by the clusters finished before cluster k.
EarlierMembers(k) == UNION {members[q] : q \in 1..(k - 1)}

\* Whether records a and b of the input score at least the threshold.
Similar(a, b) ==
    ScoreAtLeast(calculate_similarity(all_clients[a], all_clients[b]), threshold)

\* C1: record n belongs to the cluster seeded by s exactly when n is later than
\* s, n was not consumed by an earlier cluster, and n scores at least the
\* threshold against the seed s itself (never against another member).
C1_MergedIffSimilarToSeed ==
    MergeReturned =>
        \A k \in 1..Len(members) :
            LET s == SeedOf(k)
            IN  members[k] =
                    {s} \cup {n \in (s + 1)..NumClients :
                                 n \notin EarlierMembers(k) /\ Similar(s, n)}

\* C1 witness: a cluster holds two records that are each similar to the seed
\* and not similar to each other.
C1_Witness ==
    /\ MergeReturned
    /\ \E k \in 1..Len(members) :
          \E a, b \in members[k] \ {SeedOf(k)} :
              /\ a < b
              /\ Similar(SeedOf(k), a)
              /\ Similar(SeedOf(k), b)
              /\ ~Similar(a, b)

\* C2: the clusters partition the input indices: at every moment the finished
\* clusters and the cluster being built are pairwise disjoint and non-empty,
\* and once the merge has returned every index is in one of them and there is
\* one merged record per cluster.
C2_ClustersPartitionInput ==
    /\ Len(members) = Len(merged)
    /\ \A a, b \in 1..Len(members) : a # b => members[a] \cap members[b] = {}
    /\ \A a \in 1..Len(members) : members[a] # {} /\ members[a] \subseteq 1..NumClients
    /\ pc = "inner" => \A a \in 1..Len(members) : members[a] \cap cur_members = {}
    /\ MergeReturned =>
          /\ UNION {members[a] : a \in 1..Len(members)} = 1..NumClients
          /\ processed = 1..NumClients

\* C2 witness: record 3 was consumed by the cluster of record 1, and record 2,
\* scanned after it, seeds its own cluster without taking record 3 again.
C2_Witness ==
    /\ MergeReturned
    /\ members = <<{1, 3}, {2}>>
    /\ Similar(2, 3)

\* C3: a merged record has the last name and first name of its seed, the
\* earliest member of its cluster, while it is built and when it is finished.
C3_NameFromSeed ==
    /\ pc = "inner" =>
          /\ merged_client.nom = all_clients[i].nom
          /\ merged_client.prenom = all_clients[i].prenom
    /\ \A k \in 1..Len(merged) :
          /\ merged[k].nom = all_clients[SeedOf(k)].nom
          /\ merged[k].prenom = all_clients[SeedOf(k)].prenom

\* C3 witness: a finished cluster has a member whose last name is not the seed's.
C3_Witness ==
    /\ MergeReturned
    /\ \E k \in 1..Len(merged) :
          \E m \in members[k] : all_clients[m].nom # merged[k].nom

\* Length of the longest telephone among the members of cluster k.
LongestPhoneLen(k) ==
    CHOOSE n \in {Len(all_clients[m].telephone) : m \in members[k]} :
        \A m \in members[k] : Len(all_clients[m].telephone) <= n

\* The earliest member of cluster k whose telephone has the longest length.
FirstLongestPhone(k) ==
    CHOOSE m \in members[k] :
        /\ Len(all_clients[m].telephone) = LongestPhoneLen(k)
        /\ \A n \in members[k] :
              Len(all_clients[n].telephone) = LongestPhoneLen(k) => m <= n

\* C4: the telephone of a merged record is the longest telephone among the
\* members of its cluster, the earliest of them on a tie; it is empty only when
\* every member's telephone is empty.
C4_LongestEarliestPhone ==
    MergeReturned =>
        \A k \in 1..Len(merged) :
            /\ merged[k].telephone = all_clients[FirstLongestPhone(k)].telephone
            /\ merged[k].telephone = <<>> =>
                  \A m \in members[k] : all_clients[m].telephone = <<>>

\* C4 witness: two members of one cluster have different telephones of the
\* longest length.
C4_Witness ==
    /\ MergeReturned
    /\ \E k \in 1..Len(merged) :
          \E a, b \in members[k] :
              /\ a < b
              /\ all_clients[a].telephone # all_clients[b].telephone
              /\ Len(all_clients[a].telephone) = LongestPhoneLen(k)
              /\ Len(all_clients[b].telephone) = LongestPhoneLen(k)
              /\ LongestPhoneLen(k) > 0

\* The union of the date sets of the members of cluster k.
MemberDates(k) == UNION {Range(all_clients[m].dates) : m \in members[k]}

\* C5: the dates of a merged record are exactly the union of its members'
\* dates, listed once each, and nb_seances is the number of distinct dates.
C5_DatesUnionAndCount ==
    MergeReturned =>
        \A k \in 1..Len(merged) :
            /\ Range(merged[k].dates) = MemberDates(k)
            /\ merged[k].nb_seances = Cardinality(MemberDates(k))
            /\ Len(merged[k].dates) = merged[k].nb_seances

\* C5 witness: two records with disjoint non-empty date sets were merged and
\* the count is the sum of the two sizes.
C5_Witness ==
    /\ MergeReturned
    /\ \E k \in 1..Len(merged) :
          \E a, b \in 1..NumClients :
              /\ members[k] = {a, b}
              /\ a < b
              /\ Range(all_clients[a].dates) # {}
              /\ Range(all_clients[b].dates) # {}
              /\ Range(all_clients[a].dates) \cap Range(all_clients[b].dates) = {}
              /\ merged[k].nb_seances =
                    Len(all_clients[a].dates) + Len(all_clients[b].dates)

\* Whether records a and b carry the same non-empty telephone.
SamePhone(a, b) ==
    /\ all_clients[a].telephone # <<>>
    /\ all_clients[a].telephone = all_clients[b].telephone

\* A later record that is still unconsumed when the scan of seed s of cluster k
\* reaches it, and that carries the seed's telephone, scores at least 95 and, at
\* a threshold of at most 95, is merged into cluster k.
PhoneBoostMerges ==
    MergeReturned =>
        \A k \in 1..Len(members) :
            \A n \in (SeedOf(k) + 1)..NumClients :
                (n \notin EarlierMembers(k) /\ SamePhone(SeedOf(k), n)) =>
                    /\ ScoreAtLeast(
                           calculate_similarity(all_clients[SeedOf(k)], all_clients[n]), 95)
                    /\ threshold <= 95 => n \in members[k]

\* C6 as stated: the telephone boost holds in the deduplicator, whatever the
\* variant.
C6_PhoneBoostEverywhere == PhoneBoostMerges

\* C6 amended: the telephone boost holds in the deduplicator of
\* src/radiance_crm_app.py.
C6_PhoneBoostInApp == variant = "app" => PhoneBoostMerges

\* C6 witness: in src/radiance_crm_app.py a record whose name alone scores below
\* the threshold was merged into the seed carrying the same telephone.
C6_Witness ==
    /\ MergeReturned
    /\ variant = "app"
    /\ threshold <= 95
    /\ \E k \in 1..Len(members) :
          \E n \in members[k] \ {SeedOf(k)} :
              /\ SamePhone(SeedOf(k), n)
              /\ ~ScoreAtLeast(calculate_similarity_main(all_clients[SeedOf(k)],
                                                         all_clients[n]), threshold)

\* C7: when no record is similar to a later one (in particular for a single
\* record) the merge returns one record per input record, in input order, with
\* the same names, telephone, set of dates and session count.
C7_NoDuplicateIsIdentity ==
    (MergeReturned /\ \A a, b \in 1..NumClients : a < b => ~Similar(a, b)) =>
        /\ Len(merged) = NumClients
        /\ \A k \in 1..NumClients :
              /\ merged[k].nom = all_clients[k].nom
              /\ merged[k].prenom = all_clients[k].prenom
              /\ merged[k].telephone = all_clients[k].telephone
              /\ Range(merged[k].dates) = Range(all_clients[k].dates)
              /\ merged[k].nb_seances = all_clients[k].nb_seances
              /\ merged[k].source_files = {all_clients[k].source_file}

\* C7 witness: the merge of a single record with two dates has returned.
C7_Witness ==
    /\ MergeReturned
    /\ NumClients = 1
    /\ Len(merged) = 1
    /\ all_clients[1].nb_seances = 2

\* ---------------------------------------------------------------- claims: loyalty filter

\* The indices of the records of cl with at least min sessions.
KeptIndices(cl, min) == {k \in 1..Len(cl) : cl[k].nb_seances >= min}

\* The n-th smallest element of a set of numbers.
NthSmallest(S, n) == CHOOSE x \in S : Cardinality({y \in S : y < x}) = n - 1

\* The records of cl with at least min sessions, in the order of cl.
KeptInOrder(cl, min) ==
    [n \in 1..Cardinality(KeptIndices(cl, min)) |->
        cl[NthSmallest(KeptIndices(cl, min), n)]]

\* C8: the filter step returns exactly the merged records with at least
\* min_sessions sessions, in their order in the input, and leaves the merged
\* list as it was.
C8_FilterKeepsLoyalInOrder ==
    [][pc = "filter" =>
          /\ merged' = merged
          /\ loyal' = KeptInOrder(merged, min_sessions)]_vars

\* C8 witness: session counts 1, 2, 3 with min_sessions = 2 gave 2, 3.
C8_Witness ==
    /\ pc = "done"
    /\ min_sessions = 2
    /\ [k \in 1..Len(merged) |-> merged[k].nb_seances] = <<1, 2, 3>>
    /\ [k \in 1..Len(loyal) |-> loyal[k].nb_seances] = <<2, 3>>

\* ---------------------------------------------------------------- claims: table walker

\* Every record of a list has a last name.
AllNamed(records) == \A k \in 1..Len(records) : records[k].nom # <<>>

\* C9: no record with an empty last name exists at any stage: none among the
\* entries the walker has collected for the current document, none in the
\* extracted list, none in the cluster being built, none in the merged list
\* and none in the retained list.
C9_NoEmptyLastName ==
    /\ AllNamed(clients)
    /\ AllNamed(all_clients)
    /\ pc = "inner" => merged_client.nom # <<>>
    /\ AllNamed(merged)
    /\ AllNamed(loyal)

\* The column of the name cell in the table being walked.
NameColumn == IF variant = "main" THEN 1 ELSE name_col

\* The texts the walker hands to parse_name for a row.
NameTexts(row) ==
    IF variant = "main"
    THEN split_clients_in_cell(flatten_cell_content(row[1]))
    ELSE <<flatten_cell_content(row[name_col])>>

\* A parse that gave a telephone number and no last name.
PhoneOnly(parsed) == parsed[1] = <<>> /\ parsed[3] # <<>>

\* C9 witness: the walker has just passed a data row one of whose name texts
\* parses to a telephone number without a last name.
C9_Witness ==
    /\ pc = "row"
    /\ row_idx - 1 >= (IF variant = "main" THEN 1 ELSE 2)
    /\ Len(CurTable[row_idx - 1]) >= NameColumn
    /\ \E k \in 1..Len(NameTexts(CurTable[row_idx - 1])) :
          PhoneOnly(parse_name(NameTexts(CurTable[row_idx - 1])[k]))

\* The fragments of the name cell of a row, split on line breaks and semicolons.
NameFragments(row) == split_clients_in_cell(flatten_cell_content(row[NameColumn]))

\* A parse that gave a last name.
Named(parsed) == parsed[1] # <<>>

\* The dates parsed from the date column(s) of a row.
RowDateSet(row) ==
    IF variant = "main" THEN RowDates_main(row) ELSE RowDates_app(row)

\* C10: for a data row whose name cell lists several fragments, the walker
\* appends one entry per fragment that yields a last name, and every entry
\* appended carries, without duplicates, exactly the dates parsed from the
\* row's date column(s).
C10_OneRecordPerFragment ==
    [][(/\ pc = "row"
        /\ row_idx <= Len(CurTable)
        /\ Len(CurRow) >= NameColumn
        /\ Len(NameFragments(CurRow)) >= 2)
       => /\ Len(clients') =
                Len(clients) + Len(SelectSeq(ParseAll(NameFragments(CurRow)), Named))
          /\ \A k \in (Len(clients) + 1)..Len(clients') :
                /\ Range(clients'[k].dates) = RowDateSet(CurRow)
                /\ Len(clients'[k].dates) = Cardinality(RowDateSet(CurRow))]_vars

\* ---------------------------------------------------------------- claims: telephone column

\* The normalised value of the telephone cell of a row, <<>> when there is no
\* telephone column or the row has no such cell.
ColumnPhone(row) ==
    IF phone_col # 0 /\ Len(row) >= phone_col
    THEN normalize_phone(flatten_cell_content(row[phone_col]))
    ELSE <<>>

\* The telephone number parse_name finds in the name cell of a row.
NamePhone(row) == parse_name(flatten_cell_content(row[name_col]))[3]

\* C11: in header mode the entry appended for a row carries the normalised
\* value of the telephone cell whenever that value is not empty, and the
\* telephone number found in the name text in every other case (no telephone
\* column, no such cell in the row, fewer than 9 digits in the cell).
C11_PhoneColumnPreferred ==
    [][(/\ pc = "row"
        /\ variant = "app"
        /\ Len(clients') = Len(clients) + 1)
       => clients'[Len(clients')].telephone =
             IF ColumnPhone(CurRow) # <<>> THEN ColumnPhone(CurRow) ELSE NamePhone(CurRow)]_vars

\* C11 witness: the row just walked has one telephone number in its name cell
\* and another in its telephone cell, and the entry carries the latter.
C11_Witness ==
    /\ pc = "row"
    /\ variant = "app"
    /\ row_idx > 2
    /\ clients # <<>>
    /\ Len(CurTable[row_idx - 1]) >= name_col
    /\ ColumnPhone(CurTable[row_idx - 1]) # <<>>
    /\ NamePhone(CurTable[row_idx - 1]) # <<>>
    /\ ColumnPhone(CurTable[row_idx - 1]) # NamePhone(CurTable[row_idx - 1])
    /\ clients[Len(clients)].telephone = ColumnPhone(CurTable[row_idx - 1])

\* ---------------------------------------------------------------- claims: failing documents

\* Whether the processing of a document fails: the reader raises on opening
\* it, or an exception is raised while its rows are walked.
Fails(doc) == ~doc.readable \/ doc.raises_at # <<0, 0>>

\* The last and first names of a list of entries.
NamesOf(records) == [k \in 1..Len(records) |-> <<records[k].nom, records[k].prenom>>]

\* The names parse_name gives for the texts, those without last name left out.
NamedOf(texts) ==
    LET parsed == SelectSeq(ParseAll(texts), Named)
    IN  [k \in 1..Len(parsed) |-> <<parsed[k][1], parsed[k][2]>>]

\* The names a row of a table stands for, col being the column of the names.
RowNames(row, col) ==
    IF Len(row) < col THEN <<>>
    ELSE IF variant = "main"
         THEN NamedOf(split_clients_in_cell(flatten_cell_content(row[col])))
         ELSE NamedOf(<<flatten_cell_content(row[col])>>)

\* The names a table stands for: every row read by position (src/main.py), or
\* the rows under a header that names the column (src/radiance_crm_app.py).
TableNames(table) ==
    IF variant = "main"
    THEN ConcatAll([r \in 1..Len(table) |-> RowNames(table[r], 1)])
    ELSE IF Len(table) < 2 THEN <<>>
    ELSE LET col == FirstColumn(HeaderTexts(table[1]), name_keywords)
         IN  IF col = 0 THEN <<>>
             ELSE ConcatAll([r \in 1..(Len(table) - 1) |-> RowNames(table[r + 1], col)])

\* The names a document stands for, in the order of its tables and rows.
ExpectedNames(doc) ==
    ConcatAll([t \in 1..Len(doc.body) |-> TableNames(doc.body[t])])

\* C12: when process_all_docx_files returns, extract_clients_from_docx has
\* returned for every document of the batch, in order, whether or not an
\* earlier document failed; the batch result is the concatenation of what it
\* returned, and every document that did not fail has contributed an entry for
\* each name in it.
C12_FailureDoesNotAbortBatch ==
    pc = "extracted" =>
        /\ Len(extracted) = Len(docs)
        /\ all_clients = ConcatAll(extracted)
        /\ \A k \in 1..Len(docs) :
              ~Fails(docs[k]) => NamesOf(extracted[k]) = ExpectedNames(docs[k])

\* C12 witness: the first document failed and the second gave its entries.
C12_Witness ==
    /\ pc = "extracted"
    /\ Len(docs) = 2
    /\ Fails(docs[1])
    /\ ~Fails(docs[2])
    /\ extracted[2] # <<>>
    /\ all_clients # <<>>

\* C13: a document whose processing fails contributes no entry to the batch
\* result.
C13_FailedDocumentContributesNothing ==
    pc = "extracted" =>
        \A k \in 1..Len(docs) : Fails(docs[k]) => extracted[k] = <<>>

\* ---------------------------------------------------------------- claims: outcomes of a run

\* Whether some merged client has the minimum number of sessions.
SomeQualifies == \E k \in 1..Len(merged) : merged[k].nb_seances >= min_sessions

Rearrangements(n) ==
    {p \in [1..n -> 1..n] : \A a, b \in 1..n : p[a] = p[b] => a = b}

\* c1 may stand before c2: more sessions, or as many and the last name not
\* greater, the first name not greater when the last names are equal.
MayPrecede(c1, c2) ==
    \/ c1.nb_seances > c2.nb_seances
    \/ /\ c1.nb_seances = c2.nb_seances
       /\ \/ StrLess(c1.nom, c2.nom)
          \/ c1.nom = c2.nom /\ ~StrLess(c2.prenom, c1.prenom)

\* The rearrangements of the retained clients that are in the order of export.
OrderedPermutations ==
    {p \in Rearrangements(Len(loyal)) :
        \A k \in 1..(Len(loyal) - 1) : MayPrecede(loyal[p[k]], loyal[p[k + 1]])}

\* C15: every file written holds the rows of the retained clients, each client
\* once, by descending number of sessions, then ascending last name, then
\* ascending first name.
C15_ExportSortedPermutation ==
    (pc = "done" /\ outcome = "export") =>
        /\ written.std # <<>> =>
              \E p \in OrderedPermutations :
                 written.std = [k \in 1..Len(loyal) |-> StandardRow(loyal[p[k]])]
        /\ written.odoo # <<>> =>
              \E p \in OrderedPermutations : \E tags \in BOOLEAN :
                 written.odoo = [k \in 1..Len(loyal) |-> OdooRow(loyal[p[k]], tags)]

\* C15 witness: both files were written and their rows are not in the order
\* of the retained list.
C15_Witness ==
    /\ pc = "done"
    /\ outcome = "export"
    /\ Len(loyal) >= 2
    /\ written.std # <<>>
    /\ written.odoo # <<>>
    /\ written.std # [k \in 1..Len(loyal) |-> StandardRow(loyal[k])]
    /\ \E k \in 1..(Len(loyal) - 1) : ~MayPrecede(loyal[k], loyal[k + 1])

\* ---------------------------------------------------------------- claims: one run at a time

\* The worker threads that are in a stage of the pipeline.
InStage == {t \in 1..Len(threads) : threads[t].at \in Range(PipelineStages)}

\* The worker threads that have not called _done yet.
Unfinished == {t \in 1..Len(threads) : threads[t].at # "ended"}

\* C16: at any time at most one worker thread is in a stage of the pipeline,
\* and a worker that has not ended implies is_running; a worker thread is
\* started only in a step that finds is_running false and sets it; and
\* is_running is cleared only when every worker started has left its last
\* stage and called _done.
C16_RunsNeverOverlap ==
    /\ [](Cardinality(InStage) <= 1 /\ (Unfinished # {} => is_running))
    /\ [][Len(threads') > Len(threads) => (~is_running /\ is_running')]_vars
    /\ [][(is_running /\ ~is_running') => Unfinished = {}]_vars

\* C16 witness: a second worker is in a stage after the first has ended.
C16_Witness ==
    /\ Len(threads) >= 2
    /\ threads[1].at = "ended"
    /\ threads[2].at = "merge"
    /\ is_running

\* ---------------------------------------------------------------- claims: window of years

\* A token that is a day, a month and a four-digit year before 2000 or after 2030.
OutOfWindowToken(tok) ==
    /\ Len(tok) >= 8
    /\ \A k \in (Len(tok) - 3)..Len(tok) : tok[k] \in Digits
    /\ tok[Len(tok) - 4] \in {"/", "-", "."}
    /\ tok[1] \in Digits
    /\ LET year == ToInt(SubSeq(tok, Len(tok) - 3, Len(tok)))
       IN  year < 2000 \/ year > 2030

\* The tokens without the k-th.
Without(tokens, k) == SubSeq(tokens, 1, k - 1) \o SubSeq(tokens, k + 1, Len(tokens))

\* Whether dates is what parse_dates returns for the date text.
ReturnedFor(dates, date_text) ==
    IF variant = "main" THEN dates = parse_dates_main(date_text)
    ELSE dates \in ListsOf(parse_dates_app(date_text))

\* C17: every date parse_dates returns has a year from 2000 to 2030, and a
\* cell with a token whose year is outside gives what the cell without that
\* token gives.
C17_YearsInWindow ==
    fn_name = "parse_dates" =>
        /\ \A k \in 1..Len(fn_out) : 2000 <= fn_out[k][3] /\ fn_out[k][3] <= 2030
        /\ \A tokens \in SeqsUpTo(DateTokenPool, MaxTokens) :
              JoinTokens(tokens) = fn_in =>
                 \A k \in 1..Len(tokens) :
                    OutOfWindowToken(tokens[k]) =>
                       ReturnedFor(fn_out, JoinTokens(Without(tokens, k)))

\* C17 witness: '12/03/1987, 5/4/24' gives the one date 05/04/2024.
C17_Witness ==
    /\ fn_name = "parse_dates"
    /\ fn_in = <<"1","2","/","0","3","/","1","9","8","7",",",
                 " ","5","/","4","/","2","4">>
    /\ fn_out = <<<<5, 4, 2024>>>>

\* ---------------------------------------------------------------- claims: names

\* The text parse_name splits into words: the stripped text without the
\* telephone number, punctuation blanked, runs of whitespace collapsed.
CleanedName(text) ==
    Strip(CollapseSpaces(BlankPunctuation(extract_phone_from_text(Strip(text))[1])))

\* The text passes the plausibility check before and after the cleaning.
PassesChecks(text) ==
    /\ is_valid_name(Strip(text))
    /\ CleanedName(text) # <<>>
    /\ is_valid_name(CleanedName(text))

\* C18: for a text that passes the plausibility checks, parse_name returns the
\* first word of the cleaned text in title case as last name, the second word
\* in title case as first name (empty when there is one word), nothing of the
\* words after the second, and the telephone number extract_phone_from_text
\* finds; 'Dupont Marie 0601020304' gives Dupont, Marie, 0601020304.
C18_FirstTwoWords ==
    fn_name = "parse_name" =>
        /\ PassesChecks(fn_in) =>
              LET words == Split(CleanedName(fn_in))
              IN  /\ Len(words) >= 1
                  /\ fn_out[1] = Title(words[1])
                  /\ fn_out[2] = IF Len(words) >= 2 THEN Title(words[2]) ELSE <<>>
                  /\ fn_out[3] = extract_phone_from_text(Strip(fn_in))[2]
        /\ fn_in = <<"D","u","p","o","n","t"," ","M","a","r","i","e"," ",
                     "0","6","0","1","0","2","0","3","0","4">> =>
              fn_out = << <<"D","u","p","o","n","t">>, <<"M","a","r","i","e">>,
                          <<"0","6","0","1","0","2","0","3","0","4">> >>
        /\ fn_in = <<"d","u","p","o","n","t">> =>
              fn_out = << <<"D","u","p","o","n","t">>, <<>>, <<>> >>

\* C18 witness: 'DUPONT marie claire' gives Dupont, Marie and no telephone.
C18_Witness ==
    /\ fn_name = "parse_name"
    /\ PassesChecks(fn_in)
    /\ Len(Split(CleanedName(fn_in))) = 3
    /\ fn_out = << <<"D","u","p","o","n","t">>, <<"M","a","r","i","e">>, <<>> >>

\* ---------------------------------------------------------------- claims: implausible names

\* The text is made of digits, spaces and the separators / - . only.
OnlyDigitsAndSeparators(text) ==
    \A k \in 1..Len(text) : text[k] \in Digits \cup {" ", "/", "-", "."}

\* The text starts with one or two digits, a separator and a digit.
StartsWithDayMonth(text) ==
    \E n \in {1, 2} :
       /\ Len(text) >= n + 2
       /\ \A k \in 1..n : text[k] \in Digits
       /\ text[n + 1] \in {"/", "-", "."}
       /\ text[n + 2] \in Digits

\* The texts the claim says are no names.
Implausible(text) ==
    \/ text = <<>>
    \/ Len(text) < 2
    \/ OnlyDigitsAndSeparators(text)
    \/ StartsWithDayMonth(text)

\* C19: is_valid_name is false for an empty text, a text of fewer than 2
\* characters, a text of digits, spaces and separators only and a text that
\* starts with a day, a separator and a month; parse_name of such a text
\* returns three empty strings.
C19_ImplausibleRejected ==
    Implausible(fn_in) =>
        /\ fn_name = "is_valid_name" => fn_out = FALSE
        /\ fn_name = "parse_name" => fn_out = << <<>>, <<>>, <<>> >>

\* C19 witness: parse_name('22 02') has returned three empty strings.
C19_Witness ==
    /\ fn_name = "parse_name"
    /\ fn_in = <<"2","2"," ","0","2">>
    /\ fn_out = << <<>>, <<>>, <<>> >>

\* ---------------------------------------------------------------- claims: telephone in a text

\* A telephone number as the program returns it: empty, or 9 digits or more.
PhoneOrEmpty(phone) ==
    \/ phone = <<>>
    \/ Len(phone) >= 9 /\ \A k \in 1..Len(phone) : phone[k] \in Digits

\* The digits of the leftmost match of the n-th pattern in the text.
LeftmostDigits(n, text) ==
    SelectSeq(MatchedText(phone_patterns[n], text, SearchFrom(phone_patterns[n], text, 1)),
              IsDigit)

\* The n-th pattern is the first whose leftmost match has 9 digits or more.
FirstWithPhone(n, text) ==
    /\ Len(LeftmostDigits(n, text)) >= 9
    /\ \A m \in 1..(n - 1) : Len(LeftmostDigits(m, text)) < 9

\* The text without its characters a..b.
CutOut(text, a, b) == SubSeq(text, 1, a - 1) \o SubSeq(text, b + 1, Len(text))

\* C20 as stated: the telephone number returned is empty or has 9 digits or
\* more and digits only; when it is not empty the text returned is the input
\* without one span, that of the number (surrounding whitespace aside); when
\* it is empty the text returned is the input.
C20_MatchedSpanRemoved ==
    fn_name = "extract_phone_from_text" =>
        /\ PhoneOrEmpty(fn_out[2])
        /\ fn_out[2] # <<>> =>
              \E a \in 1..Len(fn_in) : \E b \in a..Len(fn_in) :
                 /\ SelectSeq(SubSeq(fn_in, a, b), IsDigit) = fn_out[2]
                 /\ Strip(fn_out[1]) = Strip(CutOut(fn_in, a, b))
        /\ fn_out[2] = <<>> => fn_out[1] = fn_in

\* C20, amended: the telephone number returned is empty or has 9 digits or
\* more and digits only; when it is not empty it is the digits of the leftmost
\* match of the first pattern whose leftmost match has 9 digits, and the text
\* returned is the input with every match of that pattern removed, stripped of
\* surrounding whitespace; when it is empty no pattern's leftmost match has 9
\* digits and the text returned is the input.
C20_AllMatchesRemoved ==
    fn_name = "extract_phone_from_text" =>
        /\ PhoneOrEmpty(fn_out[2])
        /\ fn_out[2] # <<>> =>
              \E n \in 1..Len(phone_patterns) :
                 /\ FirstWithPhone(n, fn_in)
                 /\ fn_out[2] = LeftmostDigits(n, fn_in)
                 /\ fn_out[1] = Strip(SubRemove(phone_patterns[n], fn_in, 1))
        /\ fn_out[2] = <<>> =>
              /\ fn_out[1] = fn_in
              /\ \A n \in 1..Len(phone_patterns) : Len(LeftmostDigits(n, fn_in)) < 9

\* C20 witness: 'Abc 0612345678 0798765432' gives 'Abc' and 0612345678.
C20_Witness ==
    /\ fn_name = "extract_phone_from_text"
    /\ fn_in = <<"A","b","c"," ","0","6","1","2","3","4","5","6","7","8"," ",
                 "0","7","9","8","7","6","5","4","3","2">>
    /\ fn_out = << <<"A","b","c">>, <<"0","6","1","2","3","4","5","6","7","8">> >>

\* ---------------------------------------------------------------- claims: dates returned

\* C21: no date parse_dates returns has a day outside 1..31 or a month outside
\* 1..12. The dates of the library are days of the calendar, so that a date
\* out of range can only come from the regular-expression fallback.
C21_FallbackInCalendarRange ==
    fn_name = "parse_dates" =>
        \A k \in 1..Len(fn_out) :
           /\ 1 <= fn_out[k][1] /\ fn_out[k][1] <= 31
           /\ 1 <= fn_out[k][2] /\ fn_out[k][2] <= 12

\* C22: no date stands twice in the list parse_dates returns.
C22_NoDuplicateDates ==
    fn_name = "parse_dates" =>
        \A a, b \in 1..Len(fn_out) : a # b => fn_out[a] # fn_out[b]

\* ---------------------------------------------------------------- claims: flattening

\* What the cell is as one text: a string trimmed, a list the texts of its
\* items that are not empty, in order, joined by single spaces, any other leaf
\* its textual form.
RECURSIVE TextualForm(_)
TextualForm(cell) ==
    CASE cell.kind = "str" -> Strip(cell.text)
      [] cell.kind = "list" ->
            JoinWithSpace(SelectSeq([k \in 1..Len(cell.items) |-> TextualForm(cell.items[k])],
                                    NonEmpty))
      [] cell.kind = "other" -> Strip(cell.text)

\* C23: flatten_cell_content returns the trimmed value of a string, the
\* single-space join of the non-empty results of the items of a list, and the
\* textual form of any other leaf, '0' for the number 0.
C23_FlattenTextualForm ==
    fn_name = "flatten_cell_content" => fn_out = TextualForm(fn_in)

\* ---------------------------------------------------------------- claims: seeds apart

\* C24: when merge_duplicate_clients has returned, the seeds of two different
\* clusters score below the threshold against each other, in either order; in
\* src/main.py, where the score is that of the names, so do the two merged
\* records.
C24_SeedsBelowThreshold ==
    MergeReturned =>
        \A a, b \in 1..Len(members) :
            a # b =>
                /\ ~Similar(SeedOf(a), SeedOf(b))
                /\ variant = "main" =>
                      ~ScoreAtLeast(calculate_similarity_main(merged[a], merged[b]), threshold)

\* C24 witness: src/main.py has returned two merged records or more, one of
\* them merged from several records.
C24_Witness ==
    /\ MergeReturned
    /\ variant = "main"
    /\ Len(merged) >= 2
    /\ \E k \in 1..Len(members) : Cardinality(members[k]) >= 2

\* ---------------------------------------------------------------- claims: one telephone, one client

\* C28: when merge_duplicate_clients of src/radiance_crm_app.py has returned,
\* at a threshold of at most 95, no two merged records carry the same
\* non-empty telephone, and raw records with the same non-empty telephone are
\* members of one cluster.
C28_OnePhoneOneRecord ==
    (MergeReturned /\ variant = "app" /\ threshold <= 95) =>
        /\ \A a, b \in 1..Len(merged) :
              (a # b /\ merged[a].telephone # <<>>) =>
                  merged[a].telephone # merged[b].telephone
        /\ \A x, y \in 1..NumClients :
              SamePhone(x, y) => \E k \in 1..Len(members) : {x, y} \subseteq members[k]

\* ---------------------------------------------------------------- claims: two-digit years

\* The date the fallback is to give for day, month and two-digit year yy.
ExpectedOfYear(day, month, yy) ==
    IF yy <= 30 THEN <<<<day, month, 2000 + yy>>>> ELSE <<>>

\* C27: for a token with a two-digit year yy, the fallback of either file
\* keeps the token exactly when yy <= 30 and then gives the date with the
\* year 2000 + yy; the fallbacks of the two files give the same.
C27_TwoDigitYearsAgree ==
    fn_name = "fallback" =>
        /\ \A yy \in 0..99 :
              /\ fn_in = YearToken(<<"5">>, <<"4">>, "/", yy) =>
                    fn_out = ExpectedOfYear(5, 4, yy)
              /\ fn_in = YearToken(<<"3","1">>, <<"1","2">>, "-", yy) =>
                    fn_out = ExpectedOfYear(31, 12, yy)
        /\ TokenDates_main(fn_in, NoDate) = TokenDates_app(fn_in, NoDate)

\* C27 witness: the fallback of src/main.py has dropped 5/4/49, whose year it
\* reads as 2049, and that of src/radiance_crm_app.py has kept 31-12-30.
C27_Witness ==
    /\ fn_name = "fallback"
    /\ \/ /\ variant = "main"
          /\ fn_in = <<"5","/","4","/","4","9">>
          /\ fn_out = <<>>
       \/ /\ variant = "app"
          /\ fn_in = <<"3","1","-","1","2","-","3","0">>
          /\ fn_out = <<<<31, 12, 2030>>>>

\* ---------------------------------------------------------------- claims: the threshold raised

\* C25 as stated: for a fixed list, a threshold t2 >= threshold gives at
\* least as many merged clients as threshold does.
C25_RaisingNeverFewer ==
    MergeReturned =>
        \A t2 \in RaisedThresholds :
            t2 >= threshold => ClusterCount(all_clients, t2) >= Len(merged)

\* C25 amended: for a fixed list, a threshold t2 >= threshold never adds a
\* record to the cluster of the first record, and gives at least as many
\* merged clients for a list of up to three records; merge_duplicate_clients
\* returns the clusters counted by ClusterCount.
C25_FirstClusterNeverGrows ==
    (MergeReturned /\ all_clients # <<>>) =>
        /\ Len(merged) = ClusterCount(all_clients, threshold)
        /\ members[1] = FirstCluster(all_clients, threshold)
        /\ \A t2 \in RaisedThresholds :
              t2 >= threshold =>
                  /\ FirstCluster(all_clients, t2) \subseteq members[1]
                  /\ Len(all_clients) <= 3 =>
                        ClusterCount(all_clients, t2) >= Len(merged)

\* C25 witness: at threshold 70 the first of four records has consumed the
\* second, which gives three merged clients; at threshold 85 the second is
\* left to seed a cluster that consumes the other two, which gives two.
C25_Witness ==
    /\ MergeReturned
    /\ threshold = 70
    /\ Len(all_clients) = 4
    /\ members = <<{1, 2}, {3}, {4}>>
    /\ ClusterCount(all_clients, 85) = 2

\* ---------------------------------------------------------------- claims: every run ends

\* The callbacks _do of _done waiting in the queue q of the main loop.
NumDo(q) == Cardinality({k \in 1..Len(q) : q[k].fn = "_do"})

\* C26: every worker thread started eventually calls _done; it calls it once,
\* from the end of _run_pipeline, and never again; when the main loop runs
\* the callback of _done, is_running is false and the button enabled; so
\* is_running never stays true for ever.
C26_EveryRunReports ==
    /\ \A t \in 1..MaxRuns :
          (Len(threads) >= t) ~> (Len(threads) >= t /\ threads[t].at = "ended")
    /\ [][\A t \in 1..Len(threads) :
             /\ (threads[t].at # "ended" /\ threads'[t].at = "ended") =>
                   /\ threads[t].at = "report"
                   /\ after_queue' = Append(after_queue, Do(threads[t].success))
             /\ threads[t].at = "ended" => threads'[t] = threads[t]]_vars
    /\ [][NumDo(after_queue') > NumDo(after_queue) =>
             \E t \in 1..Len(threads) :
                threads[t].at = "report" /\ threads'[t].at = "ended"]_vars
    /\ [][NumDo(after_queue') < NumDo(after_queue) =>
             (~is_running' /\ run_btn' = "normal")]_vars
    /\ is_running ~> (~is_running /\ run_btn = "normal")

\* C26 witness: a run that called _done with success and a run that called
\* it without have both ended, their callbacks have run, and the window is
\* ready for the next run.
C26_Witness ==
    /\ Len(threads) >= 2
    /\ \A t \in 1..Len(threads) : threads[t].at = "ended"
    /\ \E t \in 1..Len(threads) : threads[t].success
    /\ \E t \in 1..Len(threads) : ~threads[t].success
    /\ after_queue = <<>>
    /\ ~is_running
    /\ run_btn = "normal"
    /\ status = "errors"

====
